---- MODULE Spec2Model ----
\* gentlify: the adaptive throttle (Throttle) and its components
\* (ConcurrencyController, DispatchGate, SlidingWindow, CircuitBreaker,
\* TokenBucket, ProgressTracker) as a state machine.  Callers are asyncio
\* tasks: each action is the code that runs between two suspension points.
EXTENDS Integers, Sequences, FiniteSets, TLC

\* ------------------------------------------------------------------ bounds
NumTasks == 3
MaxConcurrency == 2
MaxTime == 1
MaxCompleted == 1
MaxReported == 1
FewTasks == 2
MaxLimit == 4
LateTime == 3
MaxSuccesses == 2
LongTime == 7


\* Python's None for the nullable timestamps
None == -1

Min(a, b) == IF a <= b THEN a ELSE b
Max(a, b) == IF a >= b THEN a ELSE b

\* --------------------------------------------------------------- variables
VARIABLES
    config,            \* ThrottleConfig (frozen)
    now,               \* the monotonic clock
    concurrency,       \* ConcurrencyController: _limit, _in_flight, semaphore
    dispatch,          \* DispatchGate: _interval, _last_dispatch
    failure_window,    \* SlidingWindow._entries of the failure window (timestamps)
    circuit_breaker,   \* CircuitBreaker fields
    token_bucket,      \* SlidingWindow._entries of the token window: <<ts, tokens>>
    completed,         \* ProgressTracker._completed
    state,             \* Throttle._state
    safe_ceiling,      \* Throttle._safe_ceiling
    cooling_start,     \* Throttle._cooling_start
    last_failure_time, \* Throttle._last_failure_time
    last_milestone,    \* ProgressTracker._last_milestone
    pc,                \* where each caller task is suspended
    wake,              \* the time an asyncio.sleep of the task ends
    tokens_reported,   \* Slot._tokens_reported of the task's slot
    need,              \* the argument of the wait_for_budget call the task is in
    attempt,           \* Slot._attempt of the task's slot
    drain_pc,          \* where the drain() coroutine is
    raised,            \* what the last operation raised or handed out
    events             \* the events the last operation emitted, in order

vars == <<config, now, concurrency, dispatch, failure_window, circuit_breaker,
          token_bucket, completed, state, safe_ceiling, cooling_start,
          last_failure_time, last_milestone, pc, wake, tokens_reported, need, attempt, drain_pc,
          raised, events>>

\* ------------------------------------------------- asyncio.Semaphore (3.11)
\* The semaphore is the fields value, waiters (FIFO of suspended tasks) and
\* woken (the waiters whose future is done and that have not run yet).

RECURSIVE FirstUnwoken(_, _)
FirstUnwoken(ws, wk) ==
    IF ws = <<>> THEN None
    ELSE IF Head(ws) \notin wk THEN Head(ws)
    ELSE FirstUnwoken(Tail(ws), wk)

\* Semaphore._wake_up_next: hand one permit to the first waiter not yet done
wake_up_next(c) ==
    LET t == FirstUnwoken(c.waiters, c.woken)
    IN IF t = None THEN c
       ELSE [c EXCEPT !.value = c.value - 1, !.woken = c.woken \cup {t}]

\* a release that returns the permit and wakes nobody
sem_release_no_wake(c) == [c EXCEPT !.value = c.value + 1]

\* Semaphore.release
sem_release(c) == wake_up_next([c EXCEPT !.value = c.value + 1])

\* Semaphore.locked
sem_locked(c) == c.value = 0 \/ c.waiters # <<>>

RemoveWaiter(ws, t) == SelectSeq(ws, LAMBDA x : x # t)

\* ------------------------------------------------- ConcurrencyController
RECURSIVE release_times(_, _)
release_times(c, n) == IF n = 0 THEN c ELSE release_times(sem_release(c), n - 1)

\* a resize that releases once whatever the difference
resize_semaphore_one_release(c, new_limit) ==
    LET diff == new_limit - c.limit
        c1 == [c EXCEPT !.limit = new_limit]
    IN IF diff > 0 THEN sem_release(c1)
       ELSE IF diff < 0 THEN [c1 EXCEPT !.value = c.value - Min(-diff, c.value)]
       ELSE c1

\* ConcurrencyController._resize_semaphore
resize_semaphore(c, new_limit) ==
    LET diff == new_limit - c.limit
        c1 == [c EXCEPT !.limit = new_limit]
    IN IF diff > 0 THEN release_times(c1, diff)
       ELSE IF diff < 0 THEN [c1 EXCEPT !.value = c.value - Min(-diff, c.value)]
       ELSE c1

\* ConcurrencyController.decelerate: the new controller; old limit is c.limit
decelerate_limit(old) == Max(1, old \div 2)
cc_decelerate(c) == resize_semaphore(c, decelerate_limit(c.limit))

\* a reacceleration that forgets the ceiling
reaccelerate_limit_uncapped(old, ceiling) == old + 1

\* ConcurrencyController.reaccelerate
reaccelerate_limit(old, ceiling) == Min(old + 1, ceiling)
cc_reaccelerate(c, ceiling) == resize_semaphore(c, reaccelerate_limit(c.limit, ceiling))

\* ConcurrencyController.resize
cc_resize(c, new_limit) == resize_semaphore(c, new_limit)

\* a release that returns the permit and forgets the in-flight count
cc_release_uncounted(c) == sem_release(c)

\* ConcurrencyController.release
cc_release(c) == sem_release([c EXCEPT !.in_flight = c.in_flight - 1])

\* ConcurrencyController.__init__
cc_init(max_concurrency, initial_concurrency) ==
    LET l == IF initial_concurrency # None THEN initial_concurrency ELSE max_concurrency
    IN [limit |-> l, in_flight |-> 0, value |-> l, waiters |-> <<>>, woken |-> {}]


\* ---------------------------------------------------------- SlidingWindow
\* entries: sequence of <<timestamp, value>>, oldest first

\* SlidingWindow.record
sw_record(entries, t, value) == Append(entries, <<t, value>>)

\* SlidingWindow._prune: drop the leading entries older than the window
RECURSIVE sw_prune(_, _, _)
sw_prune(entries, t, window_seconds) ==
    IF entries # <<>> /\ Head(entries)[1] < t - window_seconds
    THEN sw_prune(Tail(entries), t, window_seconds)
    ELSE entries

RECURSIVE SumValues(_)
SumValues(entries) ==
    IF entries = <<>> THEN 0 ELSE Head(entries)[2] + SumValues(Tail(entries))

\* a count that does not prune
sw_count_unpruned(entries, t, window_seconds) == Len(entries)

\* SlidingWindow.count and total, on the pruned entries
sw_count(entries, t, window_seconds) == Len(sw_prune(entries, t, window_seconds))
sw_total(entries, t, window_seconds) == SumValues(sw_prune(entries, t, window_seconds))

\* ----------------------------------------------------------- DispatchGate
\* a delay that waits the whole interval on the first call as well
gate_delay_first_full(d, t, jitter) ==
    LET remaining == IF d.last_dispatch # None
                     THEN Max(0, d.interval - (t - d.last_dispatch))
                     ELSE d.interval
    IN remaining + jitter

\* DispatchGate.wait, up to its sleep: the delay for a jitter drawn by rand_fn
gate_delay(d, t, jitter) ==
    LET remaining == IF d.last_dispatch # None
                     THEN Max(0, d.interval - (t - d.last_dispatch))
                     ELSE 0
    IN remaining + jitter

\* the values rand_fn(0.0, interval * jitter_fraction) may return
Jitters(d, jitter_fraction) == 0..(d.interval * jitter_fraction)

\* DispatchGate.decelerate
gate_decelerate(d, max_interval) ==
    [d EXCEPT !.interval = Min(d.interval * 2, max_interval)]

\* DispatchGate.reaccelerate (intervals are whole ticks: old / 2 is exact for the
\* even intervals the configurations below produce, and 1 / 2 < min_interval = 1)
gate_reaccelerate(d, min_interval) ==
    [d EXCEPT !.interval = Max(d.interval \div 2, min_interval)]

\* ---------------------------------------------------------- CircuitBreaker
\* a transition that waits until more than the lockout has elapsed
maybe_transition_to_half_open_late(b, t) ==
    IF b.state = "open" /\ t - b.opened_at > b.current_open_duration
    THEN [b EXCEPT !.state = "half_open", !.half_open_successes = 0,
                   !.half_open_probes = 0]
    ELSE b

\* CircuitBreaker._maybe_transition_to_half_open
maybe_transition_to_half_open(b, t) ==
    IF b.state = "open" /\ t - b.opened_at >= b.current_open_duration
    THEN [b EXCEPT !.state = "half_open", !.half_open_successes = 0,
                   !.half_open_probes = 0]
    ELSE b

\* the retry_after of the CircuitOpenError that check raises
retry_after(b, t) == Max(0, b.current_open_duration - (t - b.opened_at))

\* a check that compares the probes with > and so admits one probe more
cb_check_one_more(b, cfg, t) ==
    LET b1 == maybe_transition_to_half_open(b, t)
    IN IF b1.state = "open"
       THEN [cb |-> b1, raises |-> TRUE, retry_after |-> retry_after(b1, t)]
       ELSE IF b1.state = "half_open"
       THEN IF b1.half_open_probes > cfg.half_open_max_calls
            THEN [cb |-> b1, raises |-> TRUE, retry_after |-> retry_after(b1, t)]
            ELSE [cb |-> [b1 EXCEPT !.half_open_probes = b1.half_open_probes + 1],
                  raises |-> FALSE, retry_after |-> None]
       ELSE [cb |-> b1, raises |-> FALSE, retry_after |-> None]

\* CircuitBreaker.check: the breaker after the call, whether it raised, and
\* the retry_after of the exception (None when it did not raise)
cb_check(b, cfg, t) ==
    LET b1 == maybe_transition_to_half_open(b, t)
    IN IF b1.state = "open"
       THEN [cb |-> b1, raises |-> TRUE, retry_after |-> retry_after(b1, t)]
       ELSE IF b1.state = "half_open"
       THEN IF b1.half_open_probes >= cfg.half_open_max_calls
            THEN [cb |-> b1, raises |-> TRUE, retry_after |-> retry_after(b1, t)]
            ELSE [cb |-> [b1 EXCEPT !.half_open_probes = b1.half_open_probes + 1],
                  raises |-> FALSE, retry_after |-> None]
       ELSE [cb |-> b1, raises |-> FALSE, retry_after |-> None]

\* a record_success that keeps the count of failures while the breaker is closed
cb_record_success_keeps_count(b, cfg) ==
    IF b.state = "half_open"
    THEN IF b.half_open_successes + 1 >= cfg.half_open_max_calls
         THEN [b EXCEPT !.state = "closed", !.consecutive_failures = 0,
                        !.current_open_duration = cfg.open_duration,
                        !.half_open_successes = 0,
                        !.half_open_probes = 0]
         ELSE [b EXCEPT !.half_open_successes = b.half_open_successes + 1,
                        !.consecutive_failures = 0]
    ELSE b

\* a record_success that closes the breaker with the lockout it has reached
cb_record_success_keeps_duration(b, cfg) ==
    LET b1 == [b EXCEPT !.consecutive_failures = 0]
    IN IF b1.state = "half_open"
       THEN IF b1.half_open_successes + 1 >= cfg.half_open_max_calls
            THEN [b1 EXCEPT !.state = "closed",
                            !.half_open_successes = 0,
                            !.half_open_probes = 0]
            ELSE [b1 EXCEPT !.half_open_successes = b1.half_open_successes + 1]
       ELSE b1

\* CircuitBreaker.record_success
cb_record_success(b, cfg) ==
    LET b1 == [b EXCEPT !.consecutive_failures = 0]
    IN IF b1.state = "half_open"
       THEN IF b1.half_open_successes + 1 >= cfg.half_open_max_calls
            THEN [b1 EXCEPT !.state = "closed",
                            !.current_open_duration = cfg.open_duration,
                            !.half_open_successes = 0,
                            !.half_open_probes = 0]
            ELSE [b1 EXCEPT !.half_open_successes = b1.half_open_successes + 1]
       ELSE b1

\* CircuitBreaker._open_circuit
open_circuit(b, t) ==
    [b EXCEPT !.state = "open", !.opened_at = t,
              !.half_open_successes = 0, !.half_open_probes = 0]

\* a record_failure that doubles the lockout without the cap
cb_record_failure_uncapped(b, cfg, t) ==
    LET b1 == [b EXCEPT !.consecutive_failures = b.consecutive_failures + 1]
    IN IF b1.state = "half_open"
       THEN open_circuit([b1 EXCEPT !.current_open_duration =
                              b1.current_open_duration * 2], t)
       ELSE IF b1.consecutive_failures >= cfg.consecutive_failures
       THEN open_circuit(b1, t)
       ELSE b1

\* CircuitBreaker.record_failure
cb_record_failure(b, cfg, t) ==
    LET b1 == [b EXCEPT !.consecutive_failures = b.consecutive_failures + 1]
    IN IF b1.state = "half_open"
       THEN open_circuit([b1 EXCEPT !.current_open_duration =
                              Min(b1.current_open_duration * 2, cfg.open_duration * 5)], t)
       ELSE IF b1.consecutive_failures >= cfg.consecutive_failures
       THEN open_circuit(b1, t)
       ELSE b1

\* CircuitBreaker.__init__
cb_init(cfg) ==
    [state |-> "closed", consecutive_failures |-> 0, half_open_successes |-> 0,
     opened_at |-> 0, current_open_duration |-> cfg.open_duration,
     half_open_probes |-> 0]

\* ------------------------------------------------------------ TokenBucket
\* TokenBucket.tokens_used / tokens_remaining
tokens_used(entries, budget, t) == sw_total(entries, t, budget.window_seconds)
\* the remaining budget without its floor of 0
tokens_remaining_unclamped(entries, budget, t) ==
    budget.max_tokens - tokens_used(entries, budget, t)

\* TokenBucket.tokens_remaining
tokens_remaining(entries, budget, t) ==
    Max(0, budget.max_tokens - tokens_used(entries, budget, t))


\* -------------------------------------------------------- ProgressTracker
\* milestone_pct when the caller gives none
DefaultMilestonePct == 10

\* a milestone index computed from the percentage without its cap of 100
current_milestone_unclamped(n, total_tasks, milestone_pct) ==
    (n * 100) \div (total_tasks * milestone_pct)

\* int(percentage / milestone_pct) with percentage = min(100, n /
\* total_tasks * 100), for total_tasks > 0 and milestone_pct > 0
current_milestone(n, total_tasks, milestone_pct) ==
    Min(100 * total_tasks, n * 100) \div (total_tasks * milestone_pct)

\* ProgressTracker.record_completion: the new count and index, and the result
pt_record_completion(n, last, total_tasks, milestone_pct) ==
    LET c == n + 1
    IN IF total_tasks <= 0 \/ milestone_pct <= 0
       THEN [completed |-> c, last_milestone |-> last, result |-> FALSE]
       ELSE IF current_milestone(c, total_tasks, milestone_pct) > last
       THEN [completed |-> c,
             last_milestone |-> current_milestone(c, total_tasks, milestone_pct),
             result |-> TRUE]
       ELSE [completed |-> c, last_milestone |-> last, result |-> FALSE]


\* --------------------------------------------------------- ThrottleConfig
\* The configurations the throttle is built with.  Times are whole ticks.
BaseConfig ==
    [max_concurrency |-> MaxConcurrency, initial_concurrency |-> None,
     min_dispatch_interval |-> 0, max_dispatch_interval |-> 0,
     failure_threshold |-> 2, failure_window |-> 1, cooling_period |-> 1,
     safe_ceiling_decay_multiplier |-> 2, jitter_fraction |-> 0,
     failure_predicate |-> FALSE, total_tasks |-> 0,
     has_token_budget |-> FALSE,
     token_budget |-> [max_tokens |-> 1, window_seconds |-> 1],
     has_circuit_breaker |-> FALSE,
     circuit_breaker |-> [consecutive_failures |-> 2, open_duration |-> 1,
                          half_open_max_calls |-> 1]]

Configs ==
    { BaseConfig,
      [BaseConfig EXCEPT !.failure_threshold = 1, !.failure_predicate = TRUE,
                         !.min_dispatch_interval = 1, !.max_dispatch_interval = 2],
      [BaseConfig EXCEPT !.has_token_budget = TRUE],
      [BaseConfig EXCEPT !.has_circuit_breaker = TRUE] }

\* ---------------------------------------------------------------- Throttle
\* The throttle's fields as one record, so that the handlers compose.
Self ==
    [concurrency |-> concurrency, dispatch |-> dispatch,
     failure_window |-> failure_window, circuit_breaker |-> circuit_breaker,
     token_bucket |-> token_bucket, completed |-> completed, state |-> state,
     safe_ceiling |-> safe_ceiling, cooling_start |-> cooling_start,
     last_failure_time |-> last_failure_time, last_milestone |-> last_milestone,
     events |-> <<>>]

Store(th) ==
    /\ concurrency' = th.concurrency
    /\ dispatch' = th.dispatch
    /\ failure_window' = th.failure_window
    /\ circuit_breaker' = th.circuit_breaker
    /\ token_bucket' = th.token_bucket
    /\ completed' = th.completed
    /\ state' = th.state
    /\ safe_ceiling' = th.safe_ceiling
    /\ cooling_start' = th.cooling_start
    /\ last_failure_time' = th.last_failure_time
    /\ last_milestone' = th.last_milestone
    /\ events' = th.events

\* Throttle._emit_event (with an on_state_change callback that logs the kind)
emit_event(th, kind) == [th EXCEPT !.events = Append(th.events, kind)]

\* Throttle.__init__
throttle_init(cfg) ==
    [concurrency |-> cc_init(cfg.max_concurrency, cfg.initial_concurrency),
     dispatch |-> [interval |-> cfg.min_dispatch_interval, last_dispatch |-> None],
     failure_window |-> <<>>,
     circuit_breaker |-> cb_init(cfg.circuit_breaker),
     token_bucket |-> <<>>, completed |-> 0, state |-> "RUNNING",
     safe_ceiling |-> cfg.max_concurrency, cooling_start |-> None,
     last_failure_time |-> None, last_milestone |-> 0, events |-> <<>>]

\* a reacceleration on the first success while cooling, whatever time has passed
success_reaccelerate_at_once(th, cfg, t) ==
    IF th.state = "COOLING" /\ th.cooling_start # None
    THEN emit_event(
           [th EXCEPT !.concurrency = cc_reaccelerate(th.concurrency, th.safe_ceiling),
                      !.dispatch = gate_reaccelerate(th.dispatch, cfg.min_dispatch_interval),
                      !.state = "RUNNING",
                      !.cooling_start = None],
           "reaccelerated")
    ELSE th

\* Throttle._handle_success, step 2: cooling -> reaccelerate
success_reaccelerate(th, cfg, t) ==
    IF th.state = "COOLING" /\ th.cooling_start # None
       /\ t - th.cooling_start >= cfg.cooling_period
    THEN emit_event(
           [th EXCEPT !.concurrency = cc_reaccelerate(th.concurrency, th.safe_ceiling),
                      !.dispatch = gate_reaccelerate(th.dispatch, cfg.min_dispatch_interval),
                      !.state = "RUNNING",
                      !.cooling_start = None],
           "reaccelerated")
    ELSE th

\* a decay of the safe ceiling after cooling_period alone
success_decay_early(th, cfg, t) ==
    IF th.last_failure_time # None
       /\ t - th.last_failure_time >= cfg.cooling_period
    THEN [th EXCEPT !.safe_ceiling = cfg.max_concurrency, !.last_failure_time = None]
    ELSE th

\* Throttle._handle_success, step 3: safe ceiling decay
success_decay(th, cfg, t) ==
    IF th.last_failure_time # None
       /\ t - th.last_failure_time >= cfg.cooling_period * cfg.safe_ceiling_decay_multiplier
    THEN [th EXCEPT !.safe_ceiling = cfg.max_concurrency, !.last_failure_time = None]
    ELSE th

\* Throttle._handle_success
handle_success(th, cfg, t, tokens) ==
    LET th1 == IF cfg.has_circuit_breaker
               THEN [th EXCEPT !.circuit_breaker =
                         cb_record_success(th.circuit_breaker, cfg.circuit_breaker)]
               ELSE th
        th2 == success_reaccelerate(th1, cfg, t)
        th3 == success_decay(th2, cfg, t)
        th4 == IF cfg.has_token_budget /\ tokens > 0
               THEN [th3 EXCEPT !.token_bucket = sw_record(th3.token_bucket, t, tokens)]
               ELSE th3
        done == pt_record_completion(th4.completed, th4.last_milestone,
                                     cfg.total_tasks, DefaultMilestonePct)
    IN [th4 EXCEPT !.completed = done.completed,
                   !.last_milestone = done.last_milestone]

\* a deceleration that takes the halved limit as the safe ceiling
failure_decelerate_ceiling_after(th, cfg, t) ==
    LET pruned == sw_prune(th.failure_window, t, cfg.failure_window)
        halved == cc_decelerate(th.concurrency)
    IN IF Len(pruned) >= cfg.failure_threshold
       THEN emit_event(emit_event(
              [th EXCEPT !.concurrency = halved,
                         !.dispatch = gate_decelerate(th.dispatch, cfg.max_dispatch_interval),
                         !.safe_ceiling = halved.limit,
                         !.failure_window = <<>>,
                         !.state = "COOLING",
                         !.cooling_start = t],
              "decelerated"), "cooling_started")
       ELSE [th EXCEPT !.failure_window = pruned]

\* a deceleration that keeps the failures it has counted
failure_decelerate_window_kept(th, cfg, t) ==
    LET pruned == sw_prune(th.failure_window, t, cfg.failure_window)
    IN IF Len(pruned) >= cfg.failure_threshold
       THEN emit_event(emit_event(
              [th EXCEPT !.concurrency = cc_decelerate(th.concurrency),
                         !.dispatch = gate_decelerate(th.dispatch, cfg.max_dispatch_interval),
                         !.safe_ceiling = th.concurrency.limit,
                         !.failure_window = pruned,
                         !.state = "COOLING",
                         !.cooling_start = t],
              "decelerated"), "cooling_started")
       ELSE [th EXCEPT !.failure_window = pruned]

\* Throttle._handle_failure, step 4: threshold -> decelerate
failure_decelerate(th, cfg, t) ==
    LET pruned == sw_prune(th.failure_window, t, cfg.failure_window)
    IN IF Len(pruned) >= cfg.failure_threshold
       THEN emit_event(emit_event(
              [th EXCEPT !.concurrency = cc_decelerate(th.concurrency),
                         !.dispatch = gate_decelerate(th.dispatch, cfg.max_dispatch_interval),
                         !.safe_ceiling = th.concurrency.limit,
                         !.failure_window = <<>>,
                         !.state = "COOLING",
                         !.cooling_start = t],
              "decelerated"), "cooling_started")
       ELSE [th EXCEPT !.failure_window = pruned]

\* a failure handler that tells the breaker before it asks the predicate
handle_failure_breaker_first(th, cfg, t, counted) ==
    LET th0 == IF cfg.has_circuit_breaker
               THEN [th EXCEPT !.circuit_breaker =
                         cb_record_failure(th.circuit_breaker, cfg.circuit_breaker, t)]
               ELSE th
    IN IF cfg.failure_predicate /\ ~counted THEN th0
       ELSE failure_decelerate(
              [th0 EXCEPT !.failure_window = sw_record(th.failure_window, t, 1),
                          !.last_failure_time = t], cfg, t)

\* a failure handler that records the failure twice
handle_failure_recorded_twice(th, cfg, t, counted) ==
    IF cfg.failure_predicate /\ ~counted THEN th
    ELSE LET th1 == [th EXCEPT !.failure_window =
                                  sw_record(sw_record(th.failure_window, t, 1), t, 1),
                               !.last_failure_time = t]
             th2 == IF cfg.has_circuit_breaker
                    THEN [th1 EXCEPT !.circuit_breaker =
                              cb_record_failure(th1.circuit_breaker, cfg.circuit_breaker, t)]
                    ELSE th1
         IN failure_decelerate(th2, cfg, t)

\* Throttle._handle_failure; counted is failure_predicate(exception), TRUE when
\* no predicate is configured
handle_failure(th, cfg, t, counted) ==
    IF cfg.failure_predicate /\ ~counted THEN th
    ELSE LET th1 == [th EXCEPT !.failure_window = sw_record(th.failure_window, t, 1),
                               !.last_failure_time = t]
             th2 == IF cfg.has_circuit_breaker
                    THEN [th1 EXCEPT !.circuit_breaker =
                              cb_record_failure(th1.circuit_breaker, cfg.circuit_breaker, t)]
                    ELSE th1
         IN failure_decelerate(th2, cfg, t)

\* Throttle.snapshot (total_tasks is its default 0, so eta_seconds is None)
snapshot(th, cfg, t) ==
    [concurrency |-> th.concurrency.limit,
     max_concurrency |-> cfg.max_concurrency,
     dispatch_interval |-> th.dispatch.interval,
     completed_tasks |-> th.completed,
     total_tasks |-> cfg.total_tasks,
     failure_count |-> sw_count(th.failure_window, t, cfg.failure_window),
     state |-> th.state,
     safe_ceiling |-> th.safe_ceiling,
     eta_seconds |-> None,
     tokens_used |-> IF cfg.has_token_budget
                     THEN tokens_used(th.token_bucket, cfg.token_budget, t) ELSE 0,
     tokens_remaining |-> IF cfg.has_token_budget
                          THEN tokens_remaining(th.token_bucket, cfg.token_budget, t)
                          ELSE None]

\* the snapshot a caller would be given now
Snapshot == snapshot(Self, config, now)

\* a release that is skipped when the handler changed the lifecycle (emitted)
release_skipped_after_event(th) ==
    IF th.events # <<>> THEN th
    ELSE [th EXCEPT !.concurrency = cc_release(th.concurrency)]

\* Throttle.acquire's "always release", on the throttle record
release(th) == [th EXCEPT !.concurrency = cc_release(th.concurrency)]


\* ------------------------------------------------------------ Throttle.acquire
taskVars == <<pc, wake, tokens_reported, need, attempt>>
throttleVars == <<concurrency, dispatch, failure_window, circuit_breaker,
                  token_bucket, completed, state, safe_ceiling, cooling_start,
                  last_failure_time, last_milestone>>

\* Semaphore.acquire without suspension, then ConcurrencyController.acquire's count
permit_taken(c) == [c EXCEPT !.value = c.value - 1, !.in_flight = c.in_flight + 1]

\* Semaphore.acquire after the wake-up, then ConcurrencyController.acquire's count
permit_resumed(c, t) ==
    LET c1 == [c EXCEPT !.waiters = RemoveWaiter(c.waiters, t),
                        !.woken = c.woken \ {t}]
        c2 == IF c1.value > 0 THEN wake_up_next(c1) ELSE c1
    IN [c2 EXCEPT !.in_flight = c2.in_flight + 1]

\* Throttle.acquire steps 1-2: which exception the call raises, if any
refusal(st, cfg, chk) ==
    IF st \in {"CLOSED", "DRAINING"} THEN "ThrottleClosed"
    ELSE IF cfg.has_circuit_breaker /\ chk.raises THEN "CircuitOpen"
    ELSE "none"

\* an acquire() that takes its permit first and checks afterwards, leaving with
\* the permit when it is refused
AcquireEnter_permit_first(t) ==
    /\ pc[t] = "idle"
    /\ \E jitter \in Jitters(dispatch, config.jitter_fraction) :
         LET chk == cb_check(circuit_breaker, config.circuit_breaker, now)
             why == refusal(state, config, chk)
         IN /\ raised' = why
            /\ events' = <<>>
            /\ circuit_breaker' = IF why # "ThrottleClosed" /\ config.has_circuit_breaker
                                  THEN chk.cb ELSE circuit_breaker
            /\ IF ~sem_locked(concurrency)
               THEN /\ concurrency' = permit_taken(concurrency)
                    /\ IF why # "none"
                       THEN UNCHANGED taskVars
                       ELSE /\ pc' = [pc EXCEPT ![t] = "gate"]
                            /\ wake' = [wake EXCEPT ![t] =
                                          now + gate_delay(dispatch, now, jitter)]
                            /\ UNCHANGED tokens_reported
               ELSE IF why # "none"
               THEN UNCHANGED <<concurrency, taskVars>>
               ELSE /\ concurrency' = [concurrency EXCEPT !.waiters = Append(@, t)]
                    /\ pc' = [pc EXCEPT ![t] = "permit"]
                    /\ UNCHANGED <<wake, tokens_reported>>
    /\ UNCHANGED <<config, now, dispatch, failure_window, token_bucket, completed,
                   state, safe_ceiling, cooling_start, last_failure_time, last_milestone, need,
                   attempt, drain_pc>>

\* Throttle.acquire, from the call to the first suspension (or the refusal)
AcquireEnter(t) ==
    /\ pc[t] = "idle"
    /\ \E jitter \in Jitters(dispatch, config.jitter_fraction) :
         LET chk == cb_check(circuit_breaker, config.circuit_breaker, now)
             why == refusal(state, config, chk)
         IN /\ raised' = why
            /\ events' = <<>>
            /\ circuit_breaker' = IF why # "ThrottleClosed" /\ config.has_circuit_breaker
                                  THEN chk.cb ELSE circuit_breaker
            /\ IF why # "none"
               THEN UNCHANGED <<concurrency, taskVars>>
               ELSE IF ~sem_locked(concurrency)
               THEN /\ concurrency' = permit_taken(concurrency)
                    /\ pc' = [pc EXCEPT ![t] = "gate"]
                    /\ wake' = [wake EXCEPT ![t] = now + gate_delay(dispatch, now, jitter)]
                    /\ UNCHANGED tokens_reported
               ELSE /\ concurrency' = [concurrency EXCEPT !.waiters = Append(@, t)]
                    /\ pc' = [pc EXCEPT ![t] = "permit"]
                    /\ UNCHANGED <<wake, tokens_reported>>
    /\ UNCHANGED <<config, now, dispatch, failure_window, token_bucket, completed,
                   state, safe_ceiling, cooling_start, last_failure_time, last_milestone, need,
                   attempt, drain_pc>>

\* Throttle.acquire resumed with its permit: count it, enter DispatchGate.wait
PermitResume(t) ==
    /\ pc[t] = "permit"
    /\ t \in concurrency.woken
    /\ \E jitter \in Jitters(dispatch, config.jitter_fraction) :
         wake' = [wake EXCEPT ![t] = now + gate_delay(dispatch, now, jitter)]
    /\ concurrency' = permit_resumed(concurrency, t)
    /\ pc' = [pc EXCEPT ![t] = "gate"]
    /\ raised' = "none"
    /\ events' = <<>>
    /\ UNCHANGED <<config, now, dispatch, failure_window, circuit_breaker, token_bucket,
                   completed, state, safe_ceiling, cooling_start, last_failure_time, last_milestone,
                   tokens_reported, need, attempt, drain_pc>>

\* TokenBucket.wait_for_budget(tokens), one turn of its loop: the time the
\* sleep ends, one tick (for the 0.001 s) after the oldest entry expires; None
\* when the loop is left, by its condition or by its break on an empty window
wait_until(entries, budget, t, tokens) ==
    LET pruned == sw_prune(entries, t, budget.window_seconds)
    IN IF tokens_remaining(entries, budget, t) < tokens /\ pruned # <<>>
       THEN Max(t, pruned[1][1] + budget.window_seconds) + 1
       ELSE None

\* Throttle.acquire step 5: wait_for_budget() if a token budget is configured
budget_sleep(entries, cfg, t) ==
    IF cfg.has_token_budget THEN wait_until(entries, cfg.token_budget, t, 1) ELSE None

budget_window(entries, cfg, t) ==
    IF cfg.has_token_budget THEN sw_prune(entries, t, cfg.token_budget.window_seconds)
    ELSE entries

\* Throttle.acquire steps 5-6, shared by the two resumptions below
BudgetOrSlot(t) ==
    LET until == budget_sleep(token_bucket, config, now)
    IN /\ token_bucket' = budget_window(token_bucket, config, now)
       /\ IF until # None
          THEN /\ pc' = [pc EXCEPT ![t] = "budget"]
               /\ wake' = [wake EXCEPT ![t] = until]
               /\ need' = [need EXCEPT ![t] = 1]
               /\ raised' = "none"
               /\ UNCHANGED <<tokens_reported, attempt>>
          ELSE /\ pc' = [pc EXCEPT ![t] = "slot"]
               /\ wake' = [wake EXCEPT ![t] = 0]
               /\ need' = [need EXCEPT ![t] = 0]
               /\ tokens_reported' = [tokens_reported EXCEPT ![t] = 0]
               /\ attempt' = [attempt EXCEPT ![t] = 0]
               /\ raised' = "Slot"
       /\ events' = <<>>

\* DispatchGate.wait after its sleep, then the token budget
GateResume(t) ==
    /\ pc[t] = "gate"
    /\ now >= wake[t]
    /\ dispatch' = [dispatch EXCEPT !.last_dispatch = now]
    /\ BudgetOrSlot(t)
    /\ UNCHANGED <<config, now, concurrency, failure_window, circuit_breaker, completed,
                   state, safe_ceiling, cooling_start, last_failure_time, last_milestone, drain_pc>>

\* TokenBucket.wait_for_budget after its sleep
BudgetResume(t) ==
    /\ pc[t] = "budget"
    /\ now >= wake[t]
    /\ BudgetOrSlot(t)
    /\ UNCHANGED <<config, now, concurrency, dispatch, failure_window, circuit_breaker,
                   completed, state, safe_ceiling, cooling_start, last_failure_time, last_milestone,
                   drain_pc>>

\* Slot.record_tokens(1) by the caller's block
SlotRecordTokens(t) ==
    /\ pc[t] = "slot"
    /\ tokens_reported[t] < MaxReported
    /\ tokens_reported' = [tokens_reported EXCEPT ![t] = @ + 1]
    /\ raised' = "none"
    /\ events' = <<>>
    /\ UNCHANGED <<config, now, throttleVars, pc, wake, need, attempt, drain_pc>>

\* the task leaves acquire(); exc is the exception that propagates to its caller
Leave(t, exc) ==
    /\ pc' = [pc EXCEPT ![t] = "idle"]
    /\ wake' = [wake EXCEPT ![t] = 0]
    /\ tokens_reported' = [tokens_reported EXCEPT ![t] = 0]
    /\ need' = [need EXCEPT ![t] = 0]
    /\ attempt' = [attempt EXCEPT ![t] = 0]
    /\ raised' = exc
    /\ UNCHANGED <<config, now, drain_pc>>

\* Throttle.acquire's finally block after the caller's block ended normally
ExitSuccess(t) ==
    /\ pc[t] = "slot"
    /\ completed < MaxCompleted
    /\ Store(release(handle_success(Self, config, now, tokens_reported[t])))
    /\ Leave(t, "none")

\* a failing exit that consumes what the slot reported
ExitFailureConsuming(t, counted) ==
    /\ pc[t] = "slot"
    /\ Store(release(
         [handle_failure(Self, config, now, counted) EXCEPT !.token_bucket =
             IF config.has_token_budget /\ tokens_reported[t] > 0
             THEN sw_record(@, now, tokens_reported[t]) ELSE @]))
    /\ Leave(t, "Exception")

\* what failure_predicate(exception) may return; TRUE stands for no predicate
Verdicts == IF config.failure_predicate THEN BOOLEAN ELSE {TRUE}

\* Throttle.acquire's finally block after the caller's block raised an
\* exception for which the failure predicate returns counted
ExitFailureWith(t, counted) ==
    /\ pc[t] = "slot"
    /\ Store(release(handle_failure(Self, config, now, counted)))
    /\ Leave(t, "Exception")

ExitFailure(t) == \E counted \in Verdicts : ExitFailureWith(t, counted)

\* The task is cancelled while it sleeps in DispatchGate.wait or wait_for_budget:
\* CancelledError is raised inside the try block
CancelWaitWith(t, counted) ==
    /\ pc[t] \in {"gate", "budget"}
    /\ Store(release(handle_failure(Self, config, now, counted)))
    /\ Leave(t, "CancelledError")

CancelWait(t) == \E counted \in Verdicts : CancelWaitWith(t, counted)

\* Semaphore.acquire's handling of CancelledError
permit_cancelled(c, t) ==
    LET c1 == [c EXCEPT !.waiters = RemoveWaiter(c.waiters, t),
                        !.woken = c.woken \ {t}]
    IN IF t \in c.woken THEN wake_up_next([c1 EXCEPT !.value = c1.value + 1]) ELSE c1

\* The task is cancelled while it waits for its permit (before the try block)
CancelPermit(t) ==
    /\ pc[t] = "permit"
    /\ concurrency' = permit_cancelled(concurrency, t)
    /\ events' = <<>>
    /\ Leave(t, "CancelledError")
    /\ UNCHANGED <<dispatch, failure_window, circuit_breaker, token_bucket, completed,
                   state, safe_ceiling, cooling_start, last_failure_time, last_milestone>>


\* ------------------------------------------------- the other public operations
MaxConsecutive == 3

\* Throttle.record_success()
record_success_call ==
    /\ Store(handle_success(Self, config, now, 0))
    /\ raised' = "none"
    /\ UNCHANGED <<config, now, taskVars, drain_pc>>

RecordSuccess == completed < MaxCompleted /\ record_success_call

\* Throttle.record_failure(exc), the failure predicate returning counted
RecordFailureWith(counted) ==
    /\ circuit_breaker.consecutive_failures < MaxConsecutive
    /\ Store(handle_failure(Self, config, now, counted))
    /\ raised' = "none"
    /\ UNCHANGED <<config, now, taskVars, drain_pc>>

RecordFailure == \E counted \in Verdicts : RecordFailureWith(counted)

\* a close() that also forgets the failures counted so far
Close_window_cleared ==
    /\ Store(emit_event([Self EXCEPT !.state = "CLOSED", !.failure_window = <<>>],
                        "closed"))
    /\ raised' = "none"
    /\ UNCHANGED <<config, now, taskVars, drain_pc>>

\* Throttle.close
Close ==
    /\ Store(emit_event([Self EXCEPT !.state = "CLOSED"], "closed"))
    /\ raised' = "none"
    /\ UNCHANGED <<config, now, taskVars, drain_pc>>

\* Throttle.drain, after its loop: in_flight is 0
drain_finish(th) == emit_event([th EXCEPT !.state = "CLOSED"], "drained")

\* Throttle.drain, from the call to its first sleep (or its return)
DrainCall ==
    /\ drain_pc \in {"idle", "returned"}
    /\ LET th == emit_event([Self EXCEPT !.state = "DRAINING"], "draining")
       IN IF concurrency.in_flight > 0
          THEN Store(th) /\ drain_pc' = "polling"
          ELSE Store(drain_finish(th)) /\ drain_pc' = "returned"
    /\ raised' = "none"
    /\ UNCHANGED <<config, now, taskVars>>

\* Throttle.drain resumed from asyncio.sleep(0.05) and finding in_flight == 0
\* (finding in_flight > 0 it sleeps again, which changes nothing)
DrainPoll ==
    /\ drain_pc = "polling"
    /\ concurrency.in_flight = 0
    /\ Store(drain_finish(Self))
    /\ drain_pc' = "returned"
    /\ raised' = "none"
    /\ UNCHANGED <<config, now, taskVars>>

\* the clock advances, up to MaxTime or to the end of a token wait beyond it
Tick ==
    /\ \/ now < MaxTime
       \/ \E t \in DOMAIN pc : pc[t] = "budget" /\ now < wake[t]
    /\ now' = now + 1
    /\ raised' = "none"
    /\ events' = <<>>
    /\ UNCHANGED <<config, throttleVars, taskVars, drain_pc>>

\* the clock advances, up to LateTime
TickLate ==
    /\ now < LateTime
    /\ now' = now + 1
    /\ raised' = "none"
    /\ events' = <<>>
    /\ UNCHANGED <<config, throttleVars, taskVars, drain_pc>>

\* the clock advances, up to LongTime
TickLong ==
    /\ now < LongTime
    /\ now' = now + 1
    /\ raised' = "none"
    /\ events' = <<>>
    /\ UNCHANGED <<config, throttleVars, taskVars, drain_pc>>

\* ------------------------------------------------------------ specification
InitWith(cfg, tasks) ==
    /\ config = cfg
    /\ now = 0
    /\ concurrency = throttle_init(cfg).concurrency
    /\ dispatch = throttle_init(cfg).dispatch
    /\ failure_window = throttle_init(cfg).failure_window
    /\ circuit_breaker = throttle_init(cfg).circuit_breaker
    /\ token_bucket = throttle_init(cfg).token_bucket
    /\ completed = throttle_init(cfg).completed
    /\ state = throttle_init(cfg).state
    /\ safe_ceiling = throttle_init(cfg).safe_ceiling
    /\ cooling_start = throttle_init(cfg).cooling_start
    /\ last_failure_time = throttle_init(cfg).last_failure_time
    /\ last_milestone = throttle_init(cfg).last_milestone
    /\ pc = [t \in tasks |-> "idle"]
    /\ wake = [t \in tasks |-> 0]
    /\ tokens_reported = [t \in tasks |-> 0]
    /\ need = [t \in tasks |-> 0]
    /\ attempt = [t \in tasks |-> 0]
    /\ drain_pc = "idle"
    /\ raised = "none"
    /\ events = <<>>

\* the caller tasks of the behaviour
Tasks == DOMAIN pc

\* Throttle with the plain configuration: callers enter, exit, are cancelled;
\* close() and drain() are called; time passes
PlainConfigs == { [BaseConfig EXCEPT !.failure_threshold = 1] }

Init == \E cfg \in PlainConfigs : InitWith(cfg, 1..NumTasks)

Next ==
    \/ \E t \in Tasks : AcquireEnter(t)
    \/ \E t \in Tasks : PermitResume(t)
    \/ \E t \in Tasks : GateResume(t)
    \/ \E t \in Tasks : ExitSuccess(t)
    \/ \E t \in Tasks : ExitFailure(t)
    \/ \E t \in Tasks : CancelWait(t)
    \/ \E t \in Tasks : CancelPermit(t)
    \/ Close
    \/ DrainCall
    \/ DrainPoll
    \/ Tick

Spec == Init /\ [][Next]_vars

\* Throttle with every configuration and every operation, two callers
InitFull == \E cfg \in Configs : InitWith(cfg, 1..FewTasks)

NextFull ==
    \/ Next
    \/ \E t \in Tasks : BudgetResume(t)
    \/ \E t \in Tasks : SlotRecordTokens(t)
    \/ RecordSuccess
    \/ RecordFailure

SpecFull == InitFull /\ [][NextFull]_vars

\* Throttle with the handlers driven by one caller and by record_success() and
\* record_failure(), over a longer time: decelerations, reaccelerations and
\* the decay of the safe ceiling
ManualConfigs ==
    { [BaseConfig EXCEPT !.max_concurrency = MaxLimit, !.failure_predicate = TRUE,
                         !.min_dispatch_interval = 1, !.max_dispatch_interval = 4],
      [BaseConfig EXCEPT !.max_concurrency = MaxLimit,
                         !.initial_concurrency = MaxLimit - 1,
                         !.failure_threshold = 1, !.failure_predicate = TRUE,
                         !.has_circuit_breaker = TRUE] }

InitManual == \E cfg \in ManualConfigs : InitWith(cfg, {1})

RecordSuccessLate == completed < MaxSuccesses /\ record_success_call

NextManual ==
    \/ \E t \in Tasks : AcquireEnter(t)
    \/ \E t \in Tasks : GateResume(t)
    \/ \E t \in Tasks : ExitSuccess(t)
    \/ \E t \in Tasks : ExitFailure(t)
    \/ \E t \in Tasks : CancelWait(t)
    \/ RecordSuccessLate
    \/ RecordFailure
    \/ TickLate

SpecManual == InitManual /\ [][NextManual]_vars


\* one task at a time on a gate with jitter up to the whole interval
GateConfigs ==
    { [BaseConfig EXCEPT !.max_concurrency = MaxLimit, !.failure_predicate = TRUE,
                         !.failure_threshold = 1, !.jitter_fraction = 1,
                         !.min_dispatch_interval = 1, !.max_dispatch_interval = 4] }

InitGate == \E cfg \in GateConfigs : InitWith(cfg, {1})

SpecGate == InitGate /\ [][NextManual]_vars

\* ------------------------------------- ConcurrencyController used on its own
ccFrame == <<config, now, dispatch, failure_window, circuit_breaker, token_bucket,
             completed, state, safe_ceiling, cooling_start, last_failure_time, last_milestone,
             wake, tokens_reported, need, attempt, drain_pc, raised, events>>

\* ConcurrencyController.acquire, to its return or its suspension
CCAcquire(t) ==
    /\ pc[t] = "idle"
    /\ IF ~sem_locked(concurrency)
       THEN /\ concurrency' = permit_taken(concurrency)
            /\ pc' = [pc EXCEPT ![t] = "holding"]
       ELSE /\ concurrency' = [concurrency EXCEPT !.waiters = Append(@, t)]
            /\ pc' = [pc EXCEPT ![t] = "permit"]
    /\ UNCHANGED ccFrame

\* ConcurrencyController.acquire resumed with its permit
CCResume(t) ==
    /\ pc[t] = "permit"
    /\ t \in concurrency.woken
    /\ concurrency' = permit_resumed(concurrency, t)
    /\ pc' = [pc EXCEPT ![t] = "holding"]
    /\ UNCHANGED ccFrame

\* ConcurrencyController.release by a task that acquired
CCRelease(t) ==
    /\ pc[t] = "holding"
    /\ concurrency' = cc_release(concurrency)
    /\ pc' = [pc EXCEPT ![t] = "idle"]
    /\ UNCHANGED ccFrame

CCDecelerate ==
    /\ concurrency' = cc_decelerate(concurrency)
    /\ UNCHANGED <<pc, ccFrame>>

CCReaccelerate ==
    /\ \E ceiling \in 1..config.max_concurrency :
         concurrency' = cc_reaccelerate(concurrency, ceiling)
    /\ UNCHANGED <<pc, ccFrame>>

CCResize ==
    /\ \E n \in 1..config.max_concurrency : concurrency' = cc_resize(concurrency, n)
    /\ UNCHANGED <<pc, ccFrame>>

\* ConcurrencyController(max_concurrency, initial_concurrency)
InitCC ==
    \E initial \in {None} \cup 1..MaxConcurrency :
       /\ InitWith([BaseConfig EXCEPT !.initial_concurrency = initial], 1..NumTasks)

\* acquire/release pairs only: the limit is never changed
NextPairs ==
    \/ \E t \in Tasks : CCAcquire(t)
    \/ \E t \in Tasks : CCResume(t)
    \/ \E t \in Tasks : CCRelease(t)

SpecPairs == InitCC /\ [][NextPairs]_vars

\* acquire/release with the limit changed at any time
NextCC ==
    \/ NextPairs
    \/ CCDecelerate
    \/ CCReaccelerate
    \/ CCResize

SpecCC == InitCC /\ [][NextCC]_vars

\* ConcurrencyController(max_concurrency = MaxLimit, initial_concurrency = 1)
InitRaise ==
    InitWith([BaseConfig EXCEPT !.max_concurrency = MaxLimit,
                                !.initial_concurrency = 1], 1..NumTasks)

\* the same operations with room to raise the limit by more than one
SpecRaise == InitRaise /\ [][NextCC]_vars


\* ----------------------------------------------- CircuitBreaker used on its own
cbFrame == <<config, concurrency, dispatch, failure_window, token_bucket, completed,
             state, safe_ceiling, cooling_start, last_failure_time, last_milestone, pc, wake,
             tokens_reported, need, attempt, drain_pc>>

\* CircuitBreaker.check
CBCheck ==
    /\ LET chk == cb_check(circuit_breaker, config.circuit_breaker, now)
       IN /\ circuit_breaker' = chk.cb
          /\ raised' = IF chk.raises THEN "CircuitOpen" ELSE "none"
    /\ events' = <<>>
    /\ UNCHANGED <<now, cbFrame>>

\* CircuitBreaker.state (the property makes the pending transition)
CBState ==
    /\ circuit_breaker' = maybe_transition_to_half_open(circuit_breaker, now)
    /\ raised' = "none"
    /\ events' = <<>>
    /\ UNCHANGED <<now, cbFrame>>

\* CircuitBreaker.record_success
CBRecordSuccess ==
    /\ circuit_breaker' = cb_record_success(circuit_breaker, config.circuit_breaker)
    /\ raised' = "none"
    /\ events' = <<>>
    /\ UNCHANGED <<now, cbFrame>>

\* CircuitBreaker.record_failure
CBRecordFailure ==
    /\ circuit_breaker.consecutive_failures < MaxConsecutive
    /\ circuit_breaker' =
         cb_record_failure(circuit_breaker, config.circuit_breaker, now)
    /\ raised' = "none"
    /\ events' = <<>>
    /\ UNCHANGED <<now, cbFrame>>

\* CircuitBreakerConfig: two failures or three open the breaker, two probes
\* or one; the last with no lockout at all
BreakerConfigs ==
    { [BaseConfig EXCEPT !.has_circuit_breaker = TRUE,
                         !.circuit_breaker = [consecutive_failures |-> 2,
                                              open_duration |-> 1,
                                              half_open_max_calls |-> 2]],
      [BaseConfig EXCEPT !.has_circuit_breaker = TRUE,
                         !.circuit_breaker = [consecutive_failures |-> 3,
                                              open_duration |-> 2,
                                              half_open_max_calls |-> 1]],
      [BaseConfig EXCEPT !.has_circuit_breaker = TRUE,
                         !.circuit_breaker = [consecutive_failures |-> 1,
                                              open_duration |-> 0,
                                              half_open_max_calls |-> 1]] }

InitBreaker == \E cfg \in BreakerConfigs : InitWith(cfg, {1})

NextBreaker ==
    \/ CBCheck
    \/ CBState
    \/ CBRecordSuccess
    \/ CBRecordFailure
    \/ TickLong

SpecBreaker == InitBreaker /\ [][NextBreaker]_vars


\* ------------------------------------------- SlidingWindow and TokenBucket
\* The window and the bucket on their own, driven through their public
\* operations by a caller that may record at any time.
MaxEntries == 3
MaxValue == 2
MaxNeed == 3

swFrame == <<config, concurrency, dispatch, circuit_breaker, token_bucket, completed,
             state, safe_ceiling, cooling_start, last_failure_time, last_milestone, pc, wake,
             tokens_reported, need, attempt, drain_pc>>

\* SlidingWindow.record(value)
SWRecord ==
    /\ Len(failure_window) < MaxEntries
    /\ \E value \in 1..MaxValue :
          failure_window' = sw_record(failure_window, now, value)
    /\ raised' = "none"
    /\ events' = <<>>
    /\ UNCHANGED <<now, swFrame>>

\* SlidingWindow.count() or total(): the read prunes the stored entries
SWRead ==
    /\ failure_window' = sw_prune(failure_window, now, config.failure_window)
    /\ raised' = "none"
    /\ events' = <<>>
    /\ UNCHANGED <<now, swFrame>>

\* SlidingWindow.clear()
SWClear ==
    /\ failure_window' = <<>>
    /\ raised' = "none"
    /\ events' = <<>>
    /\ UNCHANGED <<now, swFrame>>

WindowConfigs ==
    {[BaseConfig EXCEPT !.failure_window = w] : w \in 1..2}

InitWindow == \E cfg \in WindowConfigs : InitWith(cfg, {1})

NextWindow ==
    \/ SWRecord
    \/ SWRead
    \/ SWClear
    \/ TickLate

SpecWindow == InitWindow /\ [][NextWindow]_vars

tbFrame == <<config, concurrency, dispatch, failure_window, circuit_breaker, completed,
             state, safe_ceiling, cooling_start, last_failure_time, last_milestone, tokens_reported,
             attempt, drain_pc>>

\* TokenBucket.consume(tokens)
TBConsume ==
    /\ Len(token_bucket) < MaxEntries
    /\ \E tokens \in 1..MaxValue :
          token_bucket' = sw_record(token_bucket, now, tokens)
    /\ raised' = "none"
    /\ events' = <<>>
    /\ UNCHANGED <<now, pc, wake, need, tbFrame>>

\* TokenBucket.tokens_used() or tokens_remaining(): the read prunes the window
TBRead ==
    /\ token_bucket' = sw_prune(token_bucket, now, config.token_budget.window_seconds)
    /\ raised' = "none"
    /\ events' = <<>>
    /\ UNCHANGED <<now, pc, wake, need, tbFrame>>

\* TokenBucket.wait_for_budget(tokens), from the call to its first sleep or to
\* its return (the task is then "idle" again)
TBWaitWith(t, tokens) ==
    /\ pc[t] = "idle"
    /\ LET budget == config.token_budget
           until == wait_until(token_bucket, budget, now, tokens)
       IN /\ token_bucket' = sw_prune(token_bucket, now, budget.window_seconds)
          /\ IF until # None
             THEN /\ pc' = [pc EXCEPT ![t] = "budget"]
                  /\ wake' = [wake EXCEPT ![t] = until]
                  /\ need' = [need EXCEPT ![t] = tokens]
             ELSE UNCHANGED <<pc, wake, need>>
    /\ raised' = "none"
    /\ events' = <<>>
    /\ UNCHANGED <<now, tbFrame>>

TBWait(t) == \E tokens \in 1..MaxNeed : TBWaitWith(t, tokens)

\* TokenBucket.wait_for_budget, after a sleep: the loop condition again
TBWaitResume(t) ==
    /\ pc[t] = "budget"
    /\ now >= wake[t]
    /\ LET budget == config.token_budget
           until == wait_until(token_bucket, budget, now, need[t])
       IN /\ token_bucket' = sw_prune(token_bucket, now, budget.window_seconds)
          /\ IF until # None
             THEN /\ wake' = [wake EXCEPT ![t] = until]
                  /\ UNCHANGED <<pc, need>>
             ELSE /\ pc' = [pc EXCEPT ![t] = "idle"]
                  /\ wake' = [wake EXCEPT ![t] = 0]
                  /\ need' = [need EXCEPT ![t] = 0]
    /\ raised' = "none"
    /\ events' = <<>>
    /\ UNCHANGED <<now, tbFrame>>

BucketConfigs ==
    {[BaseConfig EXCEPT !.has_token_budget = TRUE,
                        !.token_budget = [max_tokens |-> m, window_seconds |-> w]] :
        m \in 1..2, w \in 1..2}

InitBucket == \E cfg \in BucketConfigs : InitWith(cfg, {1})

NextBucket ==
    \/ TBConsume
    \/ TBRead
    \/ \E t \in Tasks : TBWait(t)
    \/ \E t \in Tasks : TBWaitResume(t)
    \/ TickLong

SpecBucket == InitBucket /\ [][NextBucket]_vars

\* ------------------------------------------------- Throttle.execute and retry
\* execute(fn) runs fn(slot) inside acquire(); with a retry policy a failed
\* call is repeated inside the same slot.  pc "slot": fn is running;
\* pc "backoff": execute sleeps before the next attempt.
MaxAttempts == 3

RECURSIVE Pow2(_)
Pow2(n) == IF n = 0 THEN 1 ELSE 2 * Pow2(n - 1)

\* the values rand_fn(0.0, exp_delay) may return; the other policies draw nothing
Rands(rc, n) ==
    IF rc.backoff = "exponential_jitter"
    THEN 0..Min(rc.base_delay * Pow2(n), rc.max_delay)
    ELSE {0}

\* RetryHandler.compute_delay
compute_delay(rc, n, rand) ==
    IF rc.backoff = "fixed" THEN rc.base_delay
    ELSE IF rc.backoff = "exponential" THEN Min(rc.base_delay * Pow2(n), rc.max_delay)
    ELSE rand

\* RetryHandler.is_retryable; verdict is what the retryable predicate returns
is_retryable(rc, verdict) == IF ~rc.has_retryable THEN TRUE ELSE verdict

\* a setter that leaves the counter alone
slot_set_attempt_stuck(att, t, n) == att

\* Slot._set_attempt
slot_set_attempt(att, t, n) == [att EXCEPT ![t] = n]

\* whether execute goes on to another attempt after fn raised
retries(cfg, n, verdict) ==
    /\ cfg.has_retry
    /\ is_retryable(cfg.retry, verdict)
    /\ n < cfg.retry.max_attempts - 1

\* fn raised and another attempt follows: the retry event, then the sleep
ExecuteBackoff(t, verdict) ==
    /\ pc[t] = "slot"
    /\ retries(config, attempt[t], verdict)
    /\ \E rand \in Rands(config.retry, attempt[t]) :
          wake' = [wake EXCEPT ![t] = now + compute_delay(config.retry, attempt[t], rand)]
    /\ Store(emit_event(Self, "retry"))
    /\ pc' = [pc EXCEPT ![t] = "backoff"]
    /\ raised' = "none"
    /\ UNCHANGED <<config, now, tokens_reported, need, attempt, drain_pc>>

\* the sleep is over: the slot's attempt counter goes up and fn is invoked again
ExecuteReinvoke(t) ==
    /\ pc[t] = "backoff"
    /\ now >= wake[t]
    /\ pc' = [pc EXCEPT ![t] = "slot"]
    /\ wake' = [wake EXCEPT ![t] = 0]
    /\ attempt' = slot_set_attempt(attempt, t, attempt[t] + 1)
    /\ raised' = "none"
    /\ events' = <<>>
    /\ UNCHANGED <<config, now, throttleVars, tokens_reported, need, drain_pc>>

\* fn raised and no attempt follows: the exception leaves the acquire() block
ExecutePropagate(t, verdict) ==
    /\ ~retries(config, attempt[t], verdict)
    /\ ExitFailure(t)

\* fn raised an exception
ExecuteRaise(t) ==
    \E verdict \in BOOLEAN : ExecuteBackoff(t, verdict) \/ ExecutePropagate(t, verdict)

\* fn returned: the acquire() block ends normally
ExecuteReturn(t) == ExitSuccess(t)

RetryConfigs ==
    { [max_attempts |-> MaxAttempts, backoff |-> "exponential", base_delay |-> 1,
       max_delay |-> 2, has_retryable |-> FALSE],
      [max_attempts |-> 2, backoff |-> "fixed", base_delay |-> 0,
       max_delay |-> 0, has_retryable |-> TRUE],
      [max_attempts |-> MaxAttempts, backoff |-> "exponential_jitter", base_delay |-> 1,
       max_delay |-> 1, has_retryable |-> TRUE],
      [max_attempts |-> 1, backoff |-> "fixed", base_delay |-> 1,
       max_delay |-> 1, has_retryable |-> FALSE] }

\* Throttle(..., failure_threshold, retry = RetryConfig(...))
ExecuteConfigs ==
    { [BaseConfig EXCEPT !.failure_threshold = th]
         @@ [has_retry |-> TRUE, retry |-> rc] : th \in 1..2, rc \in RetryConfigs }
    \cup { BaseConfig @@ [has_retry |-> FALSE, retry |-> rc] :
              rc \in {r \in RetryConfigs : r.max_attempts = MaxAttempts /\ ~r.has_retryable} }

InitExecute == \E cfg \in ExecuteConfigs : InitWith(cfg, 1..FewTasks)

NextExecute ==
    \/ \E t \in Tasks : AcquireEnter(t)
    \/ \E t \in Tasks : PermitResume(t)
    \/ \E t \in Tasks : GateResume(t)
    \/ \E t \in Tasks : ExecuteReturn(t)
    \/ \E t \in Tasks : ExecuteRaise(t)
    \/ \E t \in Tasks : ExecuteReinvoke(t)
    \/ TickLate

SpecExecute == InitExecute /\ [][NextExecute]_vars

\* ------------------------------------------- ProgressTracker used on its own
MaxTotal == 5
MaxOver == 2

ptFrame == <<config, now, concurrency, dispatch, failure_window, circuit_breaker,
             token_bucket, state, safe_ceiling, cooling_start, last_failure_time,
             taskVars, drain_pc>>

\* ProgressTracker.record_completion(duration); raised holds what it returned
PTRecord ==
    /\ completed < config.total_tasks + MaxOver
    /\ LET done == pt_record_completion(completed, last_milestone,
                                        config.total_tasks, config.milestone_pct)
       IN /\ completed' = done.completed
          /\ last_milestone' = done.last_milestone
          /\ raised' = IF done.result THEN "milestone" ELSE "none"
    /\ events' = <<>>
    /\ UNCHANGED ptFrame

\* ProgressTracker(total_tasks, milestone_pct)
ProgressConfigs ==
    { [BaseConfig EXCEPT !.total_tasks = total] @@ [milestone_pct |-> pct] :
         total \in 0..MaxTotal, pct \in {10, 25, 30, 50, 100} }

InitProgress == \E cfg \in ProgressConfigs : InitWith(cfg, {1})

NextProgress == PTRecord

SpecProgress == InitProgress /\ [][NextProgress]_vars

\* ------------------------------------------------ recovery after a deceleration
\* One caller acquires again and again.  Its block may fail at time 0, and
\* succeeds ever after; the count of completed operations is kept up to
\* MaxSuccesses (with total_tasks = 0 nothing depends on it).
ExitSuccessAgain(t) ==
    /\ pc[t] = "slot"
    /\ Store([release(handle_success(Self, config, now, tokens_reported[t]))
                 EXCEPT !.completed = Min(@, MaxSuccesses)])
    /\ Leave(t, "none")

ExitFailureOnce(t) ==
    /\ now = 0
    /\ last_failure_time = None
    /\ ExitFailureWith(t, TRUE)

InitRecover ==
    InitWith([BaseConfig EXCEPT !.max_concurrency = MaxLimit,
                                !.failure_threshold = 1], {1})

NextRecover ==
    \/ \E t \in Tasks : AcquireEnter(t)
    \/ \E t \in Tasks : GateResume(t)
    \/ \E t \in Tasks : ExitSuccessAgain(t)
    \/ \E t \in Tasks : ExitFailureOnce(t)
    \/ TickLong

\* the clock advances and the caller's task runs whenever it can: it keeps
\* acquiring and its blocks keep succeeding
RecoverSpec ==
    /\ InitRecover
    /\ [][NextRecover]_vars
    /\ WF_vars(TickLong)
    /\ WF_vars(AcquireEnter(1) \/ GateResume(1) \/ ExitSuccessAgain(1))

\* ------------------------------------------- ConcurrencyController, scheduled
\* asyncio runs a woken acquirer, and the operations in flight exit; the limit
\* is changed at any time or never
FairCC ==
    /\ InitCC
    /\ [][NextCC]_vars
    /\ \A t \in 1..NumTasks : WF_vars(CCResume(t)) /\ WF_vars(CCRelease(t))

\* ------------------------------------------------- tokens reported on a slot
MaxSlotTokens == 3

\* Slot.record_tokens
slot_record_tokens(reported, count) == reported + count

\* Slot.record_tokens(count) by the caller's block
SlotRecordTokensWith(t, count) ==
    /\ pc[t] = "slot"
    /\ tokens_reported[t] + count <= MaxSlotTokens
    /\ tokens_reported' = [tokens_reported EXCEPT
                              ![t] = slot_record_tokens(tokens_reported[t], count)]
    /\ raised' = "none"
    /\ events' = <<>>
    /\ UNCHANGED <<config, now, throttleVars, pc, wake, need, attempt, drain_pc>>

SlotReport(t) == \E count \in 0..MaxValue : SlotRecordTokensWith(t, count)

\* the caller's block ends normally, up to MaxSuccesses times
ExitSuccessReported(t) ==
    /\ pc[t] = "slot"
    /\ completed < MaxSuccesses
    /\ Store(release(handle_success(Self, config, now, tokens_reported[t])))
    /\ Leave(t, "none")

\* with and without a token budget; milestones every completion of two
TokenConfigs ==
    { [BaseConfig EXCEPT !.total_tasks = 2],
      [BaseConfig EXCEPT !.total_tasks = 2, !.has_token_budget = TRUE,
                         !.token_budget = [max_tokens |-> 4, window_seconds |-> 2]] }

InitTokens == \E cfg \in TokenConfigs : InitWith(cfg, 1..FewTasks)

NextTokens ==
    \/ \E t \in Tasks : AcquireEnter(t)
    \/ \E t \in Tasks : GateResume(t)
    \/ \E t \in Tasks : BudgetResume(t)
    \/ \E t \in Tasks : SlotReport(t)
    \/ \E t \in Tasks : ExitSuccessReported(t)
    \/ \E t \in Tasks : ExitFailure(t)
    \/ TickLate

SpecTokens == InitTokens /\ [][NextTokens]_vars

\* ------------------------------------------- the valid dispatch intervals
\* ThrottleConfig.__post_init__ accepts 0 <= min_dispatch_interval <=
\* max_dispatch_interval.  Intervals are 0 or a power of two, so that every
\* halving is exact or ends at the floor.
Intervals == {0, 1, 2, 4}

IntervalConfigs ==
    { [BaseConfig EXCEPT !.max_concurrency = MaxLimit, !.failure_threshold = 1,
                         !.min_dispatch_interval = p[1], !.max_dispatch_interval = p[2]] :
        p \in {q \in Intervals \X Intervals : q[1] <= q[2]} }

InitIntervals == \E cfg \in IntervalConfigs : InitWith(cfg, {1})

SpecIntervals == InitIntervals /\ [][NextManual]_vars

\* ==================================================================== claims
\* the tasks that hold a concurrency permit counted in in_flight
Admitted == {t \in Tasks : pc[t] \in {"gate", "budget", "slot", "backoff", "holding"}}

\* C1: in any interleaving of acquire() entries, slot exits, decelerations and
\* reaccelerations, in_flight never exceeds max_concurrency.
C1_InFlightWithinMax == concurrency.in_flight <= config.max_concurrency

\* C2: at every quiescent point of the ConcurrencyController (no acquirer is
\* suspended) in_flight + available permits = current_limit, also after the
\* limit was changed while operations were in flight and these have released.
\* Points with in_flight > current_limit are left out: the operations in
\* flight at a reduction have not all released there.
C2_QuiescentConservation ==
    ((\A t \in Tasks : pc[t] # "permit") /\ concurrency.in_flight <= concurrency.limit)
        => concurrency.in_flight + concurrency.value = concurrency.limit

\* C3: after the limit was lowered below the number of operations in flight,
\* no acquire() is granted a permit until in_flight has dropped below the limit:
\* every step that counts a new operation in flight starts with in_flight < limit.
C3_NoGrantAtLimit ==
    [][concurrency'.in_flight > concurrency.in_flight
          => concurrency.in_flight < concurrency.limit]_vars

\* C4: with the limit unchanged, in_flight never exceeds current_limit, every
\* permit is in flight, available or handed to a waiter, and when every
\* acquire() has been matched by its release() in_flight = 0 and the available
\* permits equal current_limit.
C4_PermitConservation ==
    /\ concurrency.in_flight <= concurrency.limit
    /\ concurrency.in_flight = Cardinality(Admitted)
    /\ concurrency.in_flight + concurrency.value + Cardinality(concurrency.woken)
         = concurrency.limit
    /\ (\A t \in Tasks : pc[t] = "idle")
         => concurrency.in_flight = 0 /\ concurrency.value = concurrency.limit

\* a release() handed its permit to a suspended acquirer
C4_Witness ==
    /\ concurrency.woken # {}
    /\ concurrency.in_flight = concurrency.limit - 1
    /\ concurrency.value = 0


\* the permits of the semaphore that no operation in flight holds
FreePermits(c) == c.value + Cardinality(c.woken)

C6_ClosedStaysShut ==
    [][state = "CLOSED" => state' \notin {"RUNNING", "COOLING"}]_vars

\* C7: no caller is handed a Slot while the lifecycle is CLOSED or DRAINING,
\* callers suspended in acquire() since before close()/drain() included.
C7_NoSlotWhenShut == raised = "Slot" => state \notin {"CLOSED", "DRAINING"}

\* C8: a refused acquire() (ThrottleClosed, CircuitOpen) is refused for the
\* stated reason and before any permit is taken: the concurrency controller,
\* the last-dispatch time, the failure window, the token window, the completed
\* count and the caller tasks are as before the call.
C8_RefusalChangesNothing ==
    [][raised' \in {"ThrottleClosed", "CircuitOpen"}
          => /\ concurrency' = concurrency
             /\ dispatch' = dispatch
             /\ failure_window' = failure_window
             /\ token_bucket' = token_bucket
             /\ completed' = completed
             /\ pc' = pc
             /\ (raised' = "ThrottleClosed") = (state \in {"CLOSED", "DRAINING"})
             /\ raised' = "CircuitOpen"
                  => config.has_circuit_breaker /\ circuit_breaker'.state # "closed"]_vars

\* an acquire() was refused by the breaker while an operation is in flight
C8_Witness ==
    /\ raised = "CircuitOpen"
    /\ concurrency.in_flight > 0
    /\ concurrency.value > 0

\* C9: while drain() is suspended the lifecycle is DRAINING (CLOSED when
\* close() is called meanwhile), and when it returns the lifecycle is CLOSED,
\* in_flight = 0 and `drained` was emitted after `draining`.
C9_DrainingUntilReturn ==
    /\ drain_pc = "polling" => state \in {"DRAINING", "CLOSED"}
    /\ (events # <<>> /\ events[Len(events)] = "drained")
         => /\ state = "CLOSED"
            /\ concurrency.in_flight = 0
            /\ drain_pc = "returned"

\* C10: drain() terminates when the admitted operations exit (fair scheduling).
C10_DrainReturns == (drain_pc = "polling") ~> (drain_pc = "returned")

\* asyncio runs every task that can run, so every admitted operation exits;
\* drain() polls again and again and is even taken to catch every moment at
\* which in_flight is 0, however short
InitFair == \E cfg \in PlainConfigs : InitWith(cfg, 1..FewTasks)

FairSpec ==
    /\ InitFair
    /\ [][Next]_vars
    /\ SF_vars(DrainPoll)
    /\ \A t \in 1..FewTasks :
         WF_vars(PermitResume(t) \/ GateResume(t) \/ ExitSuccess(t) \/ ExitFailure(t))


\* C11: close() is idempotent: every call leaves the lifecycle CLOSED and the
\* snapshot as it was but for the lifecycle state, so the snapshot after a
\* second or later call equals the snapshot after the first.
C11_CloseIdempotent ==
    [][events' = <<"closed">>
          => /\ state' = "CLOSED"
             /\ Snapshot' = [Snapshot EXCEPT !.state = "CLOSED"]
             /\ state = "CLOSED" => Snapshot' = Snapshot]_vars

\* close() was called on a throttle with a failure in its window and an
\* operation in flight
C11_Witness ==
    /\ events = <<"closed">>
    /\ state = "CLOSED"
    /\ Snapshot.failure_count > 0
    /\ concurrency.in_flight > 0


\* ------------------------------------------------ the handlers' steps
\* a step in which the failure handler ran, the predicate returning counted
FailureHandled(counted) ==
    \/ \E t \in Tasks : ExitFailureWith(t, counted) \/ CancelWaitWith(t, counted)
    \/ RecordFailureWith(counted)

\* a step in which the success handler ran
SuccessHandled == (\E t \in Tasks : ExitSuccess(t)) \/ record_success_call

\* the live entries of the failure window once a failure is recorded now
LiveAfterRecord ==
    sw_count(sw_record(failure_window, now, 1), now, config.failure_window)

\* C12: a counted failure that brings the live entries of the failure window
\* to failure_threshold or more halves the limit (floor 1), doubles the
\* interval (cap max_dispatch_interval), takes the limit held before as the
\* safe ceiling, sets COOLING with cooling_start = now and emits `decelerated`
\* then `cooling_started`; a counted failure below the threshold changes none
\* of limit, interval, safe ceiling and lifecycle.
C12_DecelerationStep ==
    [][FailureHandled(TRUE)
          => IF LiveAfterRecord >= config.failure_threshold
             THEN /\ concurrency'.limit = Max(1, concurrency.limit \div 2)
                  /\ dispatch'.interval =
                       Min(2 * dispatch.interval, config.max_dispatch_interval)
                  /\ safe_ceiling' = concurrency.limit
                  /\ state' = "COOLING"
                  /\ cooling_start' = now
                  /\ events' = <<"decelerated", "cooling_started">>
             ELSE /\ concurrency'.limit = concurrency.limit
                  /\ dispatch'.interval = dispatch.interval
                  /\ safe_ceiling' = safe_ceiling
                  /\ state' = state
                  /\ events' = <<>>]_vars

\* a failing slot caused the second deceleration in a row: limit 4 -> 2 -> 1,
\* interval 1 -> 2 -> 4
C12_Witness ==
    /\ raised = "Exception"
    /\ events = <<"decelerated", "cooling_started">>
    /\ concurrency.limit = 1
    /\ safe_ceiling = 2
    /\ dispatch.interval = 4
    /\ cooling_start = now

\* is kind among the events of the sequence
Emitted(evs, kind) == \E i \in 1..Len(evs) : evs[i] = kind

\* C13: right after every deceleration the snapshot's failure_count is 0; the
\* failure window holds only counted failures recorded since (one entry per
\* counted failure, nothing else adds one), always fewer than
\* failure_threshold, and a deceleration happens only on a counted failure
\* that finds failure_threshold of them live.
C13_WindowClearedOnDeceleration ==
    [][/\ Emitted(events', "decelerated")
            => /\ Snapshot'.failure_count = 0
               /\ FailureHandled(TRUE)
               /\ LiveAfterRecord >= config.failure_threshold
       /\ Len(failure_window') < config.failure_threshold
       /\ failure_window' # failure_window
            => /\ FailureHandled(TRUE)
               /\ \/ failure_window' = <<>>
                  \/ failure_window' =
                       sw_prune(sw_record(failure_window, now, 1), now,
                                config.failure_window)
       /\ (state' = "COOLING" /\ cooling_start' # None)
            => \A i \in 1..Len(failure_window') :
                  failure_window'[i][1] >= cooling_start']_vars

\* a deceleration cleared the window, and one counted failure since is in it
C13_Witness ==
    /\ state = "COOLING"
    /\ cooling_start # None
    /\ cooling_start < now
    /\ Len(failure_window) = 1
    /\ failure_window[1][1] = now
    /\ config.failure_threshold = 2

\* C14: when the failure predicate returns false for the exception of a
\* failing slot or of record_failure(), the failure handler changes nothing:
\* failure window, last_failure_time, the breaker, limit, interval, safe
\* ceiling, lifecycle and completed count stay, and no event is emitted.
C14_UncountedFailureChangesNothing ==
    [][(config.failure_predicate /\ FailureHandled(FALSE))
          => /\ failure_window' = failure_window
             /\ last_failure_time' = last_failure_time
             /\ circuit_breaker' = circuit_breaker
             /\ concurrency'.limit = concurrency.limit
             /\ dispatch' = dispatch
             /\ safe_ceiling' = safe_ceiling
             /\ cooling_start' = cooling_start
             /\ state' = state
             /\ completed' = completed
             /\ events' = <<>>]_vars

\* a slot failed just now with an exception the predicate rejects: the last
\* counted failure is older and the breaker still has its one failure
C14_Witness ==
    /\ config.failure_predicate
    /\ config.has_circuit_breaker
    /\ raised = "Exception"
    /\ last_failure_time # None
    /\ last_failure_time < now
    /\ circuit_breaker.consecutive_failures = 1
    /\ circuit_breaker.state = "closed"

\* C15: a success handled while COOLING with now - cooling_start >=
\* cooling_period sets the limit to min(L + 1, safe_ceiling), the interval to
\* max(I / 2, min_dispatch_interval), the lifecycle to RUNNING and emits
\* `reaccelerated`; nothing else reaccelerates, and cooling_start is the time
\* of the latest deceleration (only a deceleration or a reacceleration changes
\* it), so no reacceleration comes earlier than cooling_period after it.
C15_ReaccelerationStep ==
    [][/\ (SuccessHandled /\ state = "COOLING" /\ cooling_start # None
             /\ now - cooling_start >= config.cooling_period)
            => /\ concurrency'.limit = Min(concurrency.limit + 1, safe_ceiling)
               /\ 2 * dispatch'.interval =
                    Max(dispatch.interval, 2 * config.min_dispatch_interval)
               /\ state' = "RUNNING"
               /\ events' = <<"reaccelerated">>
       /\ Emitted(events', "reaccelerated")
            => /\ SuccessHandled
               /\ state = "COOLING"
               /\ cooling_start # None
               /\ now - cooling_start >= config.cooling_period
       /\ cooling_start' # cooling_start
            => \/ Emitted(events', "decelerated") /\ cooling_start' = now
               \/ Emitted(events', "reaccelerated") /\ cooling_start' = None]_vars

\* a success one cooling period after a deceleration 4 -> 2 raised the limit
\* to 3 and halved the interval
C15_Witness ==
    /\ events = <<"reaccelerated">>
    /\ state = "RUNNING"
    /\ concurrency.limit = 3
    /\ safe_ceiling = 4
    /\ dispatch.interval = 1
    /\ config.min_dispatch_interval = 1

\* C16: always 1 <= current limit <= safe_ceiling <= max_concurrency, and a
\* reacceleration never lowers the limit nor raises it above the safe ceiling.
C16_LimitWithinCeiling ==
    /\ [](/\ 1 <= concurrency.limit
          /\ concurrency.limit <= safe_ceiling
          /\ safe_ceiling <= config.max_concurrency)
    /\ [][Emitted(events', "reaccelerated")
             => /\ concurrency.limit <= concurrency'.limit
                /\ concurrency'.limit <= safe_ceiling]_vars

\* a reacceleration was held at a safe ceiling below max_concurrency
C16_Witness ==
    /\ events = <<"reaccelerated">>
    /\ concurrency.limit = safe_ceiling
    /\ safe_ceiling < config.max_concurrency
    /\ safe_ceiling > 1

\* C17: a success handled with last_failure_time set and now -
\* last_failure_time >= cooling_period * safe_ceiling_decay_multiplier resets
\* safe_ceiling to max_concurrency and clears last_failure_time; an earlier
\* success leaves both; the limit changes in a success only by a
\* reacceleration, never by the decay.
C17_SafeCeilingDecay ==
    [][SuccessHandled
          => /\ IF last_failure_time # None
                   /\ now - last_failure_time >=
                        config.cooling_period * config.safe_ceiling_decay_multiplier
                THEN safe_ceiling' = config.max_concurrency /\ last_failure_time' = None
                ELSE safe_ceiling' = safe_ceiling /\ last_failure_time' = last_failure_time
             /\ ~Emitted(events', "reaccelerated")
                  => concurrency'.limit = concurrency.limit]_vars

\* the safe ceiling decayed to max_concurrency in a success that did not
\* reaccelerate: the limit stays below it
C17_Witness ==
    /\ completed > 0
    /\ events = <<>>
    /\ raised = "none"
    /\ last_failure_time = None
    /\ safe_ceiling = config.max_concurrency
    /\ concurrency.limit < config.max_concurrency - 1
    /\ state = "RUNNING"

\* C18: with jitter_fraction = 0, every return from DispatchGate.wait() comes
\* at least the interval after the previous return, also with several
\* acquirers inside wait(); the interval is taken at its smallest,
\* min_dispatch_interval, so that a change of the interval between the two
\* returns does not count.
C18_DispatchSpacing ==
    [][\A t \in Tasks :
          (config.jitter_fraction = 0 /\ pc[t] = "gate" /\ pc'[t] \in {"budget", "slot"}
             /\ dispatch.last_dispatch # None)
          => now - dispatch.last_dispatch >= config.min_dispatch_interval]_vars

\* C19: a CLOSED breaker opens exactly when the failures recorded since the
\* last recorded success reach consecutive_failures: record_failure() adds one
\* to the counter, record_success() resets it to 0, nothing else changes it;
\* a CLOSED breaker has fewer than consecutive_failures of them, stays CLOSED
\* below it, opens on the failure that reaches it, and its check() passes.
C19_OpensAtThreshold ==
    /\ [](circuit_breaker.state = "closed"
            => circuit_breaker.consecutive_failures
                 < config.circuit_breaker.consecutive_failures)
    /\ [][/\ CBRecordFailure
               => circuit_breaker'.consecutive_failures =
                    circuit_breaker.consecutive_failures + 1
          /\ CBRecordSuccess => circuit_breaker'.consecutive_failures = 0
          /\ circuit_breaker'.consecutive_failures # circuit_breaker.consecutive_failures
               => CBRecordFailure \/ CBRecordSuccess
          /\ (circuit_breaker.state = "closed" /\ CBRecordFailure)
               => (circuit_breaker'.state = "open")
                    = (circuit_breaker.consecutive_failures + 1
                         = config.circuit_breaker.consecutive_failures)
          /\ (circuit_breaker.state = "closed" /\ circuit_breaker'.state # "closed")
               => CBRecordFailure /\ circuit_breaker'.state = "open"
          /\ (circuit_breaker.state = "closed" /\ CBCheck)
               => raised' = "none" /\ circuit_breaker' = circuit_breaker]_vars

\* the breaker was closed again by its probes and then opened by three
\* failures in a row
C19_Witness ==
    /\ circuit_breaker.state = "open"
    /\ circuit_breaker.opened_at = now
    /\ circuit_breaker.opened_at >= 2
    /\ circuit_breaker.consecutive_failures = 3
    /\ config.circuit_breaker.consecutive_failures = 3
    /\ circuit_breaker.current_open_duration = config.circuit_breaker.open_duration

\* C20: in one half-open episode check() admits at most half_open_max_calls
\* probes and refuses every further check with CircuitOpen: the probe count is
\* 0 when the episode starts, grows by one with each admitted check and by
\* nothing else, is never reset while the breaker stays HALF_OPEN, and a
\* check that finds it at half_open_max_calls raises.
C20_HalfOpenProbes ==
    /\ [](circuit_breaker.half_open_probes <= config.circuit_breaker.half_open_max_calls)
    /\ [][LET b1 == maybe_transition_to_half_open(circuit_breaker, now)
          IN /\ (CBCheck /\ b1.state = "half_open")
                  => IF b1.half_open_probes < config.circuit_breaker.half_open_max_calls
                     THEN /\ raised' = "none"
                          /\ circuit_breaker' =
                               [b1 EXCEPT !.half_open_probes = b1.half_open_probes + 1]
                     ELSE /\ raised' = "CircuitOpen"
                          /\ circuit_breaker' = b1
             /\ (circuit_breaker.state = "open" /\ circuit_breaker'.state = "half_open")
                  => circuit_breaker'.half_open_probes \in {0, 1}
             /\ (circuit_breaker.state = "half_open"
                   /\ circuit_breaker'.state = "half_open")
                  => circuit_breaker'.half_open_probes >= circuit_breaker.half_open_probes
             /\ circuit_breaker'.half_open_probes > circuit_breaker.half_open_probes
                  => /\ CBCheck
                     /\ raised' = "none"
                     /\ circuit_breaker'.half_open_probes = b1.half_open_probes + 1]_vars

\* a third check in a half-open episode was refused after two probes were
\* admitted, one of which has succeeded
C20_Witness ==
    /\ raised = "CircuitOpen"
    /\ circuit_breaker.state = "half_open"
    /\ circuit_breaker.half_open_probes = 2
    /\ circuit_breaker.half_open_successes = 1
    /\ config.circuit_breaker.half_open_max_calls = 2

\* C21: always base_open_duration <= D <= 5 * base_open_duration for the
\* lockout D; record_failure() in HALF_OPEN opens the breaker with
\* D := min(2 * D, 5 * base_open_duration); no other operation increases D.
C21_BackoffBounded ==
    /\ [](/\ config.circuit_breaker.open_duration
               <= circuit_breaker.current_open_duration
          /\ circuit_breaker.current_open_duration
               <= 5 * config.circuit_breaker.open_duration)
    /\ [][/\ (circuit_breaker.state = "half_open" /\ CBRecordFailure)
               => /\ circuit_breaker'.state = "open"
                  /\ circuit_breaker'.opened_at = now
                  /\ circuit_breaker'.current_open_duration =
                       Min(2 * circuit_breaker.current_open_duration,
                           5 * config.circuit_breaker.open_duration)
          /\ circuit_breaker'.current_open_duration
               > circuit_breaker.current_open_duration
               => circuit_breaker.state = "half_open" /\ CBRecordFailure]_vars

\* the third half-open failure in a row met the cap: 1 -> 2 -> 4 -> 5
C21_Witness ==
    /\ circuit_breaker.state = "open"
    /\ config.circuit_breaker.open_duration = 1
    /\ circuit_breaker.current_open_duration = 5
    /\ circuit_breaker.opened_at = now

\* C22: in HALF_OPEN the half_open_max_calls-th recorded success closes the
\* breaker and resets D to base_open_duration and the probe and success
\* counters to 0 (an earlier success only counts); so a CLOSED breaker has
\* D = base_open_duration, and the trip from CLOSED locks out for exactly that.
C22_SuccessResets ==
    /\ [](circuit_breaker.state = "closed"
            => /\ circuit_breaker.current_open_duration
                    = config.circuit_breaker.open_duration
               /\ circuit_breaker.half_open_probes = 0
               /\ circuit_breaker.half_open_successes = 0)
    /\ [][/\ (circuit_breaker.state = "half_open" /\ CBRecordSuccess)
               => IF circuit_breaker.half_open_successes + 1
                       >= config.circuit_breaker.half_open_max_calls
                  THEN /\ circuit_breaker'.state = "closed"
                       /\ circuit_breaker'.current_open_duration
                            = config.circuit_breaker.open_duration
                       /\ circuit_breaker'.half_open_probes = 0
                       /\ circuit_breaker'.half_open_successes = 0
                  ELSE /\ circuit_breaker'.state = "half_open"
                       /\ circuit_breaker'.half_open_successes
                            = circuit_breaker.half_open_successes + 1
                       /\ circuit_breaker'.current_open_duration
                            = circuit_breaker.current_open_duration
          /\ (circuit_breaker.state # "closed" /\ circuit_breaker'.state = "closed")
               => circuit_breaker.state = "half_open" /\ CBRecordSuccess
          /\ (circuit_breaker.state = "closed" /\ circuit_breaker'.state = "open")
               => /\ circuit_breaker'.current_open_duration
                       = config.circuit_breaker.open_duration
                  /\ circuit_breaker'.opened_at = now]_vars

\* a breaker that was opened at tick 2 has been closed by its probe and is
\* CLOSED with the base lockout at tick 6 or later
C22_Witness ==
    /\ circuit_breaker.state = "closed"
    /\ config.circuit_breaker.open_duration = 2
    /\ circuit_breaker.opened_at = 2
    /\ circuit_breaker.current_open_duration = 2
    /\ now >= 6
    /\ raised = "none"

\* C23: while OPEN with less than D elapsed since the opening, check() raises
\* CircuitOpen with retry_after = D - elapsed and the breaker stays as it is,
\* and so does a state read; the first check() or state read with elapsed >= D
\* makes the breaker HALF_OPEN with the success counter 0 and the probe counter
\* 0 (the check itself is then admitted as the first probe); nothing else
\* leaves OPEN for HALF_OPEN.
C23_OpenUntilElapsed ==
    [][LET elapsed == now - circuit_breaker.opened_at
           D == circuit_breaker.current_open_duration
           chk == cb_check(circuit_breaker, config.circuit_breaker, now)
       IN /\ (circuit_breaker.state = "open" /\ elapsed < D)
               => /\ chk.raises
                  /\ chk.retry_after = D - elapsed
                  /\ CBCheck => raised' = "CircuitOpen" /\ circuit_breaker' = circuit_breaker
                  /\ CBState => circuit_breaker' = circuit_breaker
          /\ (circuit_breaker.state = "open" /\ elapsed >= D)
               => /\ CBState
                       => circuit_breaker' =
                            [circuit_breaker EXCEPT !.state = "half_open",
                                                    !.half_open_successes = 0,
                                                    !.half_open_probes = 0]
                  /\ CBCheck
                       => /\ raised' = "none"
                          /\ circuit_breaker' =
                               [circuit_breaker EXCEPT !.state = "half_open",
                                                       !.half_open_successes = 0,
                                                       !.half_open_probes = 1]
          /\ (circuit_breaker.state = "open" /\ circuit_breaker'.state = "half_open")
               => elapsed >= D /\ (CBCheck \/ CBState)]_vars

\* a check was refused three ticks into a lockout of four
C23_Witness ==
    /\ raised = "CircuitOpen"
    /\ circuit_breaker.state = "open"
    /\ circuit_breaker.current_open_duration = 4
    /\ now - circuit_breaker.opened_at = 3

\* the entries of a window that are live at time t: ts >= t - window_seconds
Live(entries, t, window_seconds) ==
    SelectSeq(entries, LAMBDA e : e[1] >= t - window_seconds)

\* C24: at every moment tokens_used is the sum of the token counts consumed at
\* times ts >= now - window_seconds and tokens_remaining is
\* max(0, max_tokens - tokens_used): consume stores its count at the current
\* time, and an entry leaves the window only once it is older than
\* window_seconds, so the budget refills as entries age out.
C24_TokensUsedIsLiveSum ==
    /\ [](LET budget == config.token_budget
              live == Live(token_bucket, now, budget.window_seconds)
          IN /\ tokens_used(token_bucket, budget, now) = SumValues(live)
             /\ tokens_remaining(token_bucket, budget, now)
                   = Max(0, budget.max_tokens - SumValues(live)))
    /\ [][LET w == config.token_budget.window_seconds
          IN /\ TBConsume =>
                   \E tokens \in 1..MaxValue :
                      token_bucket' = Append(token_bucket, <<now, tokens>>)
             /\ ~TBConsume =>
                   Live(token_bucket', now', w) = Live(token_bucket, now', w)]_vars

\* tokens were consumed beyond the budget, some of them have aged out and
\* some are still live
C24_Witness ==
    /\ Len(token_bucket) >= 2
    /\ token_bucket[1][1] < now - config.token_budget.window_seconds
    /\ tokens_used(token_bucket, config.token_budget, now) > config.token_budget.max_tokens
    /\ tokens_remaining(token_bucket, config.token_budget, now) = 0

\* C27: when wait_for_budget(need) returns, tokens_remaining >= need, for
\* every need >= 1.
C27_ReturnsWithBudget ==
    [][\A t \in Tasks :
          /\ \A tokens \in 1..MaxNeed :
                (TBWaitWith(t, tokens) /\ pc'[t] = "idle") =>
                   tokens_remaining(token_bucket', config.token_budget, now') >= tokens
          /\ (TBWaitResume(t) /\ pc'[t] = "idle") =>
                tokens_remaining(token_bucket', config.token_budget, now') >= need[t]]_vars

\* C30: count() and total() report exactly the entries with
\* ts >= now - window_seconds (an entry exactly window_seconds old is live, an
\* older one is expired and is never counted again); with a non-decreasing
\* clock and no record() in between, count() never increases from one read to
\* the next.
C30_WindowReportsLiveEntries ==
    /\ [](LET w == config.failure_window
              live == Live(failure_window, now, w)
          IN /\ sw_count(failure_window, now, w) = Len(live)
             /\ sw_total(failure_window, now, w) = SumValues(live))
    /\ [][LET w == config.failure_window
          IN /\ (SWRead \/ TickLate) =>
                   /\ Live(failure_window', now', w) = Live(failure_window, now', w)
                   /\ sw_count(failure_window', now', w)
                         <= sw_count(failure_window, now, w)
             /\ SWClear => sw_count(failure_window', now', w) = 0]_vars

\* the window stores an expired entry, one that is exactly window_seconds old
\* and a younger one
C30_Witness ==
    /\ Len(failure_window) = 3
    /\ failure_window[1][1] < now - config.failure_window
    /\ failure_window[2][1] = now - config.failure_window
    /\ failure_window[3][1] > now - config.failure_window
    /\ sw_count(failure_window, now, config.failure_window) = 2

\* the waiters of the semaphore that have not been handed a permit, in order
Unwoken(c) == SelectSeq(c.waiters, LAMBDA t : t \notin c.woken)

\* C28: raising the limit by delta (reaccelerate or resize) grants delta more
\* permits: the first min(delta, waiting) suspended acquirers are handed one
\* each, and the rest of the delta stays in the semaphore for later acquirers;
\* a waiter that was handed a permit is in flight as soon as it resumes.
C28_RaiseGrantsPermits ==
    /\ [](\A t \in concurrency.woken : pc[t] = "permit")
    /\ [][/\ ((CCReaccelerate \/ CCResize) /\ concurrency'.limit > concurrency.limit) =>
                LET delta == concurrency'.limit - concurrency.limit
                    waiting == Unwoken(concurrency)
                    k == Min(delta, Len(waiting))
                IN /\ concurrency'.woken
                         = concurrency.woken \cup {waiting[i] : i \in 1..k}
                   /\ concurrency'.value = concurrency.value + delta - k
                   /\ concurrency'.waiters = concurrency.waiters
                   /\ concurrency'.in_flight = concurrency.in_flight
        /\ \A t \in Tasks :
              CCResume(t) =>
                 /\ pc'[t] = "holding"
                 /\ concurrency'.in_flight = concurrency.in_flight + 1
                 /\ FreePermits(concurrency') = FreePermits(concurrency) - 1]_vars

\* the limit was raised by 2 or more over one waiter: the waiter has its
\* permit and the rest is available
C28_Witness ==
    /\ concurrency.limit >= 3
    /\ concurrency.in_flight = 1
    /\ Len(concurrency.waiters) = 1
    /\ Cardinality(concurrency.woken) = 1
    /\ concurrency.value >= 1

\* C29: with a single waiter at a time, DispatchGate.wait() sleeps
\* max(0, I - (now - last_dispatch)) + jitter with 0 <= jitter <= I *
\* jitter_fraction, and records the time of its return as last_dispatch; the
\* first wait() has no base delay, only jitter.
C29_GateDelay ==
    [][\A t \in Tasks :
          /\ (AcquireEnter(t) /\ pc'[t] = "gate") =>
                LET I == dispatch.interval
                    base == IF dispatch.last_dispatch = None THEN 0
                            ELSE Max(0, I - (now - dispatch.last_dispatch))
                IN /\ wake'[t] - now - base \in 0..(I * config.jitter_fraction)
                   /\ dispatch' = dispatch
          /\ GateResume(t) =>
                /\ now >= wake[t]
                /\ dispatch'.last_dispatch = now
                /\ dispatch'.interval = dispatch.interval]_vars

\* a second wait() that came before the interval had elapsed sleeps out the
\* rest of it and a jitter on top
C29_Witness ==
    \E t \in Tasks :
       /\ pc[t] = "gate"
       /\ dispatch.last_dispatch # None
       /\ now - dispatch.last_dispatch < dispatch.interval
       /\ wake[t] > dispatch.last_dispatch + dispatch.interval

\* C25: when execute() with a retry policy exhausts its attempts, one failure
\* is reported for the whole call: failure_count grows by exactly 1, or that
\* one failure reaches the threshold and the deceleration clears the window.
\* A failed attempt that is retried records nothing in the failure window and
\* triggers no deceleration, so a call that fails on early attempts and
\* succeeds on a later one leaves the limit and the lifecycle state unchanged.
C25_RetryReportsOnce ==
    [][\A t \in Tasks :
          /\ ((\E verdict \in BOOLEAN : ExecuteBackoff(t, verdict)) \/ ExecuteReinvoke(t)) =>
                /\ failure_window' = failure_window
                /\ last_failure_time' = last_failure_time
                /\ concurrency'.limit = concurrency.limit
                /\ dispatch' = dispatch
                /\ state' = state
                /\ ~Emitted(events', "decelerated")
          /\ (ExitFailure(t) /\ config.has_retry
                /\ attempt[t] = config.retry.max_attempts - 1) =>
                IF Snapshot.failure_count + 1 >= config.failure_threshold
                THEN /\ Emitted(events', "decelerated")
                     /\ Snapshot'.failure_count = 0
                ELSE /\ Snapshot'.failure_count = Snapshot.failure_count + 1
                     /\ concurrency'.limit = concurrency.limit
                     /\ state' = state
          /\ (ExecuteReturn(t) /\ attempt[t] > 0 /\ state = "RUNNING") =>
                /\ concurrency'.limit = concurrency.limit
                /\ state' = "RUNNING"
                /\ Snapshot'.failure_count = Snapshot.failure_count]_vars

\* fn is running its last allowed attempt after two failed ones, and the
\* throttle shows none of them
C25_Witness ==
    \E t \in Tasks :
       /\ config.has_retry
       /\ pc[t] = "slot"
       /\ attempt[t] = 2
       /\ attempt[t] = config.retry.max_attempts - 1
       /\ config.failure_threshold = 1
       /\ Snapshot.failure_count = 0
       /\ state = "RUNNING"
       /\ concurrency.limit = config.max_concurrency

\* C26: execute() with a retry policy invokes fn at most max_attempts times,
\* all inside one acquired slot (one permit, one Slot) whose attempt counter
\* reads 0, 1, 2, ... on successive invocations; one `retry` event is emitted
\* per retry; an exception rejected by the retryable predicate propagates
\* after a single invocation, and after the last allowed attempt the final
\* exception propagates.
C26_AttemptsWithinOneSlot ==
    /\ [](\A t \in Tasks :
            /\ pc[t] \in {"slot", "backoff"} =>
                  /\ attempt[t] <= (IF config.has_retry
                                    THEN config.retry.max_attempts - 1 ELSE 0)
                  /\ t \in Admitted
            /\ concurrency.in_flight = Cardinality(Admitted))
    /\ [][\A t \in Tasks :
             /\ (GateResume(t) /\ pc'[t] = "slot") => attempt'[t] = 0
             /\ \A verdict \in BOOLEAN :
                   ExecuteBackoff(t, verdict) =>
                      /\ is_retryable(config.retry, verdict)
                      /\ attempt[t] + 1 < config.retry.max_attempts
                      /\ events' = <<"retry">>
                      /\ concurrency' = concurrency
                      /\ attempt' = attempt
                      /\ tokens_reported' = tokens_reported
             /\ ExecuteReinvoke(t) =>
                   /\ attempt'[t] = attempt[t] + 1
                   /\ pc'[t] = "slot"
                   /\ events' = <<>>
                   /\ concurrency' = concurrency
                   /\ tokens_reported' = tokens_reported
             /\ \A verdict \in BOOLEAN :
                   (pc[t] = "slot" /\ ExecutePropagate(t, verdict)) =>
                      /\ pc'[t] = "idle"
                      /\ raised' = "Exception"
                      /\ ~Emitted(events', "retry")
             /\ (pc[t] = "slot" /\ pc'[t] = "backoff") =>
                   \/ ~config.retry.has_retryable
                   \/ ExecuteBackoff(t, TRUE) /\ ~ExecuteBackoff(t, FALSE)]_vars

\* fn is invoked for the third time in the slot it was first invoked in
C26_Witness ==
    \E t \in Tasks :
       /\ pc[t] = "slot"
       /\ attempt[t] = MaxAttempts - 1
       /\ config.retry.has_retryable
       /\ concurrency.in_flight = Cardinality(Admitted)

\* C31: record_completion returns true exactly when floor(percentage /
\* milestone_pct), with percentage capped at 100, is greater than the stored
\* milestone index; the stored index never decreases and never exceeds
\* floor(100 / milestone_pct), every reported milestone raises it, so at most
\* floor(100 / milestone_pct) completions report one and none does once 100%
\* was reported; with total_tasks <= 0 no completion reports a milestone.
C31_MilestoneReports ==
    /\ [](/\ last_milestone >= 0
          /\ last_milestone <= 100 \div config.milestone_pct
          /\ config.total_tasks <= 0 => last_milestone = 0 /\ raised # "milestone")
    /\ [][PTRecord =>
            LET total == config.total_tasks
                pct == config.milestone_pct
                \* percentage * total, so that the division below is exact
                scaled == IF 100 * (completed + 1) > 100 * total
                          THEN 100 * total ELSE 100 * (completed + 1)
                reported == raised' = "milestone"
            IN /\ reported <=>
                    (total > 0 /\ scaled \div (pct * total) > last_milestone)
               /\ reported => last_milestone' > last_milestone
               /\ ~reported => last_milestone' = last_milestone
               /\ (total > 0 /\ completed >= total) => ~reported]_vars

\* the completion that reaches 100% reported the last milestone, after
\* milestones were reported before
C31_Witness ==
    /\ config.total_tasks = 4
    /\ config.milestone_pct = 25
    /\ completed = 4
    /\ last_milestone = 4
    /\ raised = "milestone"

\* C32: after a deceleration, with no further counted failure, operations
\* that keep succeeding and time advancing, the concurrency limit eventually
\* reaches safe_ceiling and the dispatch interval eventually returns to
\* min_dispatch_interval.
C32_EventuallyRecovers ==
    (state = "COOLING") ~>
        (concurrency.limit = safe_ceiling
            /\ dispatch.interval = config.min_dispatch_interval)

\* C33: while the breaker is OPEN, record_failure() and record_success() do
\* not restart or lengthen the lockout: the time at which OPEN was entered and
\* D are left as they are, so the breaker becomes HALF_OPEN at the first check
\* or state read at or after that time + D.
C33_LockoutNotRestarted ==
    [][((CBRecordFailure \/ CBRecordSuccess) /\ circuit_breaker.state = "open"
           /\ now - circuit_breaker.opened_at < circuit_breaker.current_open_duration) =>
          /\ circuit_breaker'.opened_at = circuit_breaker.opened_at
          /\ circuit_breaker'.current_open_duration
                = circuit_breaker.current_open_duration]_vars

\* C34: the breaker moves from HALF_OPEN to CLOSED only after
\* half_open_max_calls probes admitted by check() in that half-open episode
\* have reported success: the half-open successes never exceed the admitted
\* probes, and a success reported by an operation that check() admitted
\* before the breaker opened does not count.
C34_ClosedOnlyByProbes ==
    /\ [](circuit_breaker.state = "half_open" =>
             circuit_breaker.half_open_successes <= circuit_breaker.half_open_probes)
    /\ [][(circuit_breaker.state = "half_open" /\ circuit_breaker'.state = "closed") =>
             /\ CBRecordSuccess
             /\ circuit_breaker.half_open_probes
                   >= config.circuit_breaker.half_open_max_calls]_vars

\* C35: the breaker cannot stay HALF_OPEN for ever: once every probe admitted
\* in a half-open episode has left acquire() (by success, by a counted
\* failure, by a failure the predicate excludes, or by cancellation), the
\* breaker is CLOSED or OPEN, or a later acquire() is admitted as a probe.
\* With no operation inside acquire() every probe has left.
C35_HalfOpenNotStuck ==
    ((\A t \in Tasks : pc[t] = "idle") /\ circuit_breaker.state = "half_open")
       => circuit_breaker.half_open_probes < config.circuit_breaker.half_open_max_calls

\* C36: no caller is handed a Slot while the circuit breaker is OPEN: a caller
\* that passed check() while the breaker was CLOSED and was then suspended on
\* the permit, the dispatch gate or the token budget is not admitted after
\* the breaker has opened.
C36_NoSlotWhenOpen ==
    (config.has_circuit_breaker /\ raised = "Slot") =>
        ~(/\ circuit_breaker.state = "open"
          /\ now - circuit_breaker.opened_at < circuit_breaker.current_open_duration)

\* C37: in every reachable state in_flight + available permits >= current_limit
\* >= 1, so the limiter never deadlocks: whenever in_flight = 0 at least one
\* permit is available, and a suspended acquirer is eventually granted a permit
\* provided the operations in flight eventually exit.
C37_PermitsCoverLimit ==
    /\ concurrency.limit >= 1
    /\ concurrency.in_flight + concurrency.value >= concurrency.limit
    /\ concurrency.in_flight = 0 => concurrency.value >= 1

\* every permit of the limit is in flight, available or on its way to a woken
\* acquirer
CoveredLimit ==
    /\ concurrency.limit >= 1
    /\ concurrency.in_flight + concurrency.value + Cardinality(concurrency.woken)
          >= concurrency.limit
    /\ (concurrency.in_flight = 0 /\ concurrency.woken = {}) => concurrency.value >= 1

\* C37 amended: the permits in flight, available or handed to a woken acquirer
\* that has not run yet cover the limit, and the limit is at least 1; when no
\* operation is in flight and no permit is on its way to a woken acquirer, a
\* permit is available; every suspended acquirer is eventually granted one.
C37_PermitsCoverLimitAmended ==
    /\ []CoveredLimit
    /\ \A t \in 1..NumTasks : (pc[t] = "permit") ~> (pc[t] = "holding")

\* a permit on its way: nothing in flight, nothing available, an acquirer woken
C37_Witness ==
    /\ concurrency.in_flight = 0
    /\ concurrency.value = 0
    /\ concurrency.woken # {}
    /\ concurrency.limit >= 1

\* C38: a slot that exits with an exception contributes nothing to progress or
\* to the token budget: the failing exit leaves completed_tasks, the last
\* milestone and the token window as they were, whatever was reported on the
\* slot.  A slot starts with 0 tokens reported, each record_tokens(count) adds
\* count to it and touches neither the window nor the progress, and the
\* succeeding exit alone consumes, once: one window entry holding the sum at
\* the time of the exit (none when there is no token budget or the sum is 0).
C38_FailureConsumesNothing ==
    [][\A t \in Tasks :
         /\ ExitFailure(t) =>
               /\ completed' = completed
               /\ last_milestone' = last_milestone
               /\ token_bucket' = token_bucket
         /\ (pc[t] # "slot" /\ pc'[t] = "slot") => tokens_reported'[t] = 0
         /\ \A count \in 0..MaxValue :
               SlotRecordTokensWith(t, count) =>
                  /\ tokens_reported'[t] = tokens_reported[t] + count
                  /\ token_bucket' = token_bucket
                  /\ completed' = completed
         /\ ExitSuccessReported(t) =>
               /\ completed' = completed + 1
               /\ token_bucket' =
                     IF config.has_token_budget /\ tokens_reported[t] > 0
                     THEN Append(token_bucket, <<now, tokens_reported[t]>>)
                     ELSE token_bucket]_vars

\* an operation has just failed after one whose slot reported MaxSlotTokens in
\* more than one call was counted, and one more slot holds reported tokens
C38_Witness ==
    /\ raised = "Exception"
    /\ completed = 1
    /\ token_bucket = <<<<0, MaxSlotTokens>>>>
    /\ \E t \in Tasks : pc[t] = "slot" /\ tokens_reported[t] > 0

\* C39: every deceleration strictly increases the dispatch interval unless the
\* interval already equals max_dispatch_interval, for every valid
\* configuration (min_dispatch_interval = 0 included), and the interval always
\* stays within [min_dispatch_interval, max_dispatch_interval].
C39_DecelerationSlowsDispatch ==
    /\ [](/\ config.min_dispatch_interval <= dispatch.interval
          /\ dispatch.interval <= config.max_dispatch_interval)
    /\ [][Emitted(events', "decelerated")
            => \/ dispatch.interval = config.max_dispatch_interval
               \/ dispatch'.interval > dispatch.interval]_vars
====
